---- MODULE Spec2Model ----
(***************************************************************************)
(* The AI advisory subsystem of Somos-Server: AIController (controller     *)
(* entry points), AIService (prompt builders, gateway, fallback, audit     *)
(* record) and the DatabaseService they share.                             *)
(*                                                                         *)
(* Every advisory call is a JavaScript async function.  It runs without    *)
(* interruption up to its next await on real I/O; the two such awaits are  *)
(* the fetch() of callAIAPI and the Firestore set() of                     *)
(* DatabaseService.insert.  A call is therefore at one of four places:     *)
(* "idle" (not invoked), "fetch" (suspended at fetch), "insert" (suspended *)
(* at set) and "done" (returned or thrown).  Calls interleave at these     *)
(* suspension points only.                                                 *)
(*                                                                         *)
(* JavaScript values are modelled as strings, with the two sentinels       *)
(* Undefined and Null, and objects as records.  DatabaseService is the     *)
(* Firestore service of the repository: all of its methods are async, so a *)
(* call that is not awaited yields a Promise object.  The controller       *)
(* methods are invoked as AIController.method(req, res), so that `this` is *)
(* the class; of the controller's entry points, getRecommendations and     *)
(* analyzeProgress are modelled.                                           *)
(*                                                                         *)
(* Spec and SpecConc are the advisory calls.  Three more specifications    *)
(* study functions on their arguments alone, held in args, with what they  *)
(* return in retval: SpecPrompt the prompt builders and the fallback       *)
(* selection, SpecTrend the trend computations of ProgressController and   *)
(* AIService on a series of weight logs, SpecStreak the consistency of     *)
(* NutritionController.calculateNutritionStats.  The weights and slopes of  *)
(* SpecTrend are IEEE 754 doubles, with the rounding of every operation.   *)
(***************************************************************************)
EXTENDS Integers, Sequences, FiniteSets, TLC

\* Number of advisory calls invoked in one behaviour of Spec, where a call
\* takes every request and every endpoint reply.
MaxCalls == 1

\* Number of advisory calls in flight together in a behaviour of SpecConc,
\* where the calls interleave at their suspension points.
MaxInFlight == 2

Undefined == "<undefined>"
Null == "<null>"

\* ----------------------------------------------------------------------
\* Inputs
\* ----------------------------------------------------------------------

\* Profiles held by Data Access, and the ids a request may carry in
\* req.user.id.  "u3" has no profile; Null is a request without req.user.
ProfileIds == {"u1", "u2"}
RequestUsers == {"u1", "u3", Null}

\* req.body.type of POST /ai/recommendations.
Intents == {"workout", "nutrition", "progress_analysis", "motivation"}
RequestTypes == Intents \cup {"yoga"}

\* req.body.context: absent, or an object.
Contexts == {Undefined, "{focus:fuerza}"}

\* req.body.timeRange of the progress analysis.
TimeRanges == {"30_days"}

\* What the generative-model endpoint does with one fetch().
\*   fetch      "reject"  : the promise of fetch() rejects
\*   ok         response.ok
\*   json       "invalid" : response.json() rejects
\*   candidates "missing" : data.candidates is not a list
\*              "empty"   : data.candidates is []
\*   text       the value of candidates[0].content.parts[0].text
Reply(name, f, ok, j, c, t) ==
    [name |-> name, fetch |-> f, ok |-> ok, json |-> j, candidates |-> c, text |-> t]

Replies ==
    { Reply("network_error",        "reject",  FALSE, "invalid", "missing", Undefined),
      Reply("http_500",             "resolve", FALSE, "valid",   "missing", Undefined),
      Reply("invalid_json",         "resolve", TRUE,  "invalid", "missing", Undefined),
      Reply("malformed_candidates", "resolve", TRUE,  "valid",   "missing", Undefined),
      Reply("empty_candidates",     "resolve", TRUE,  "valid",   "empty",   Undefined),
      Reply("no_text",              "resolve", TRUE,  "valid",   "list",    Undefined),
      Reply("empty_text",           "resolve", TRUE,  "valid",   "list",    ""),
      Reply("padded_text",          "resolve", TRUE,  "valid",   "list",    "  Plan de la IA  "),
      Reply("ok",                   "resolve", TRUE,  "valid",   "list",    "Plan de la IA") }

\* The requests and replies of SpecConc.
ConcUsers == {"u1", "u2"}
ConcTypes == {"workout", "motivation"}
ConcContexts == {Undefined}
ConcDataUsers == {"u2"}
ConcReplies == { rp \in Replies : rp.name \in {"ok", "http_500"} }

NoReply == Reply("-", "-", FALSE, "-", "-", Undefined)

\* The replies the specification counts as failures of the endpoint call.
FailureReplies ==
    { rp \in Replies : rp.name \in {"network_error", "http_500",
                                    "invalid_json", "malformed_candidates",
                                    "empty_candidates"} }

\* ----------------------------------------------------------------------
\* DatabaseService
\* ----------------------------------------------------------------------

\* The keys of this.collections that the advisory flow can touch.
Collections == {"users", "workouts", "progress", "nutrition", "aiSuggestions"}

\* A Promise object.  state and value are what it settles to; code that does
\* not await it sees only the object.
Promise(state, value) == [kind |-> "promise", state |-> state, value |-> value]

\* !x for an object reference: a Promise is an object, hence truthy.
Truthy(v) == v.kind # "null"

\* obj.field for a value returned by DatabaseService: a Promise has none of
\* the document's fields.
Prop(obj, field) == IF obj.kind = "promise" THEN Undefined ELSE obj.doc[field]

\* Array.isArray-like test: a Promise has no length, filter, reduce or map.
IsArray(v) == v.kind = "array"

findById(d, collectionName, id) ==
    IF collectionName \notin DOMAIN d
    THEN Promise("rejected", "TypeError")
    ELSE IF id \in DOMAIN d[collectionName]
         THEN Promise("fulfilled", id)
         ELSE Promise("fulfilled", Null)

find(d, collectionName, userId) ==
    IF collectionName \notin DOMAIN d
    THEN Promise("rejected", "TypeError")
    ELSE Promise("fulfilled", "docs")

\* The promise DatabaseService.insert returns: this.collections has no
\* collection of that name, and .doc of undefined is a TypeError.
insertPromise(d, collectionName) ==
    IF collectionName \notin DOMAIN d
    THEN Promise("rejected", "TypeError")
    ELSE Promise("fulfilled", "doc")

\* A fresh Firestore auto-id.
generateId_Fixed(counter) == 1
generateId(counter) == counter + 1

\* The effect of a set() that Firestore accepted.
insert_Replace(d, collectionName, data) ==
    [d EXCEPT ![collectionName] = (data.id :> data)]
insert(d, collectionName, data) ==
    [d EXCEPT ![collectionName] =
        [k \in (DOMAIN @) \cup {data.id} |-> IF k = data.id THEN data ELSE @[k]]]

\* ----------------------------------------------------------------------
\* AIService: progress data
\* ----------------------------------------------------------------------

\* progressData as the controller hands it over: the object built by
\* getUserProgressData, never an array.
ProgressObject(weightHistory, workoutHistory, nutritionHistory, timeRange) ==
    [kind |-> "object", weightHistory |-> weightHistory,
     workoutHistory |-> workoutHistory, nutritionHistory |-> nutritionHistory,
     timeRange |-> timeRange]

NoProgress == ProgressObject(<<>>, <<>>, <<>>, "-")

\* JSON.stringify of a progress object, by the sizes of its histories.
Stringify(progressData) ==
    IF Len(progressData.weightHistory) + Len(progressData.workoutHistory)
         + Len(progressData.nutritionHistory) = 0
    THEN "{weightHistory:[],workoutHistory:[],nutritionHistory:[],timeRange}"
    ELSE "{weightHistory:[...],workoutHistory:[...],nutritionHistory:[...],timeRange}"

\* ----------------------------------------------------------------------
\* AIService: prompt builders
\* ----------------------------------------------------------------------

\* A prompt is a string: the fixed text of the template that rendered it,
\* and the texts interpolated into its slots, in the order of the template.
\* A prompt that no builder made has the empty template and one slot.
Prompt(template, slots) == [template |-> template, slots |-> slots]

NoPrompt == Prompt("-", <<>>)

\* `${v}` in a template literal.
Interpolate(v) ==
    IF v = Undefined THEN "undefined" ELSE IF v = Null THEN "null" ELSE v

\* v || placeholder: undefined, null, the empty string and the number 0 are
\* falsy.
OrElse(v, placeholder) ==
    IF v \in {Undefined, Null, "", "0"} THEN placeholder ELSE v

\* JSON.stringify(v) of a value held in its JSON text: undefined for
\* undefined, "null" for null.
JSONstringify(v) ==
    IF v = Undefined THEN Undefined ELSE IF v = Null THEN "null" ELSE v

\* context = {} : the default applies when the argument is undefined.
DefaultContext(context) == IF context = Undefined THEN "{}" ELSE context

\* context.field of the contexts of the model.
ContextProp(context, field) ==
    IF context = "{consecutiveDays:5,lastWorkout:ayer}"
    THEN (IF field = "consecutiveDays" THEN "5"
          ELSE IF field = "lastWorkout" THEN "ayer" ELSE Undefined)
    ELSE Undefined

buildWorkoutPrompt(userData, context) ==
    Prompt("workout",
           << Interpolate(Prop(userData, "goal")),
              Interpolate(Prop(userData, "experienceLevel")),
              Interpolate(JSONstringify(Prop(userData, "equipment"))),
              OrElse(Prop(userData, "age"), "No especificada"),
              OrElse(Prop(userData, "currentWeight"), "No especificado"),
              OrElse(Prop(userData, "height"), "No especificada"),
              Interpolate(JSONstringify(context)) >>)

buildNutritionPrompt(userData, nutritionData) ==
    Prompt("nutrition",
           << Interpolate(Prop(userData, "goal")),
              OrElse(Prop(userData, "currentWeight"), "No especificado"),
              OrElse(Prop(userData, "height"), "No especificada"),
              OrElse(Prop(userData, "age"), "No especificada"),
              OrElse(Prop(userData, "activityLevel"), "Moderado"),
              Interpolate(JSONstringify(nutritionData)) >>)

buildProgressAnalysisPrompt(userData, progressData) ==
    Prompt("progress_analysis",
           << Interpolate(Prop(userData, "goal")),
              OrElse(Prop(userData, "initialWeight"), "No especificado"),
              OrElse(Prop(userData, "currentWeight"), "No especificado"),
              Stringify(progressData) >>)

buildMotivationPrompt(userData, context) ==
    Prompt("motivation",
           << OrElse(Prop(userData, "name"), "Usuario"),
              Interpolate(Prop(userData, "goal")),
              OrElse(ContextProp(context, "consecutiveDays"), "0"),
              OrElse(ContextProp(context, "lastWorkout"), "No especificado"),
              Interpolate(JSONstringify(context)) >>)

\* The words a fallback selection may scan a prompt for: the two that
\* getFallbackResponse scans for, and their English counterparts.
Keywords == {"entrenamiento", "nutrición", "workout", "nutrition"}

\* The keywords that occur in the fixed text of each template.
\* ("nutricionista" and "nutricionales" hold no accented "nutrición".)
TemplateKeywords(template) ==
    CASE template = "workout"           -> {"entrenamiento"}
      [] template = "nutrition"         -> {}
      [] template = "progress_analysis" -> {"entrenamiento"}
      [] template = "motivation"        -> {"entrenamiento"}
      [] OTHER                          -> {}

\* The context object of generateWorkoutPlan; fields that are undefined are
\* not in its JSON.
planContext(duration, workoutHistory) ==
    "{duration:" \o (IF duration = Undefined THEN "4_weeks" ELSE duration)
        \o ",workoutHistory:" \o workoutHistory \o ",userPreferences:{"
        \o (IF duration = Undefined THEN "" ELSE "preferredDuration:" \o duration)
        \o "}}"

\* nutritionData of getNutritionAdvice.
adviceData(activityLevel, nutritionHistory) ==
    "{activityLevel:" \o (IF activityLevel = Undefined THEN "moderate" ELSE activityLevel)
        \o ",nutritionHistory:" \o nutritionHistory \o "}"

\* req.body.duration and req.body.activityLevel.
Durations == {Undefined}
AdviceActivityLevels == {"high"}

\* The JSON text of an array of logs: of none, or of some.
HistoryTexts == {"[]", "[...]"}

\* The JSON texts of the context of a workout plan and of the data of a
\* nutrition advice.
PlanContexts ==
    { planContext(duration, workoutHistory) :
        duration \in Durations, workoutHistory \in HistoryTexts }
AdviceDatas ==
    { adviceData(activityLevel, nutritionHistory) :
        activityLevel \in AdviceActivityLevels \cup {Undefined},
        nutritionHistory \in HistoryTexts }

\* The keywords that occur in an interpolated text.  The JSON text of a
\* progress object has the keys workoutHistory and nutritionHistory, that of
\* the context of a workout plan the key workoutHistory, and that of the
\* data of a nutrition advice the key nutritionHistory.
DataKeywords(data) ==
    CASE data \in {"{weightHistory:[],workoutHistory:[],nutritionHistory:[],timeRange}",
                   "{weightHistory:[...],workoutHistory:[...],nutritionHistory:[...],timeRange}"}
                                                      -> {"workout", "nutrition"}
      [] data \in PlanContexts                        -> {"workout"}
      [] data \in AdviceDatas                         -> {"nutrition"}
      [] data = "plan de entrenamiento en casa"       -> {"entrenamiento"}
      [] data = "mejorar mi nutrición"                -> {"nutrición"}
      [] data = "a better workout"                    -> {"workout"}
      [] data = "nutrition tips"                      -> {"nutrition"}
      [] data = "workout and nutrition"               -> {"workout", "nutrition"}
      [] data = "entrenamiento y nutrición"           -> {"entrenamiento", "nutrición"}
      [] OTHER                                        -> {}

\* prompt.includes(keyword)
Includes(prompt, keyword) ==
    \/ keyword \in TemplateKeywords(prompt.template)
    \/ \E i \in DOMAIN prompt.slots : keyword \in DataKeywords(prompt.slots[i])

\* ----------------------------------------------------------------------
\* AIService: gateway
\* ----------------------------------------------------------------------

WorkoutFallback == "{weekPlan:[{day:Lunes,...}],tips:[...],progression:...}"
NutritionFallback == "{dailyCalories:2000,macros:{...},mealSuggestions:[...]}"
GenericFallback == "Manten la consistencia en tu rutina. Cada pequeno paso cuenta hacia tu objetivo."

Fallbacks == {WorkoutFallback, NutritionFallback, GenericFallback}

getFallbackResponse(prompt) ==
    IF Includes(prompt, "entrenamiento") THEN WorkoutFallback
    ELSE IF Includes(prompt, "nutrición") THEN NutritionFallback
    ELSE GenericFallback

\* The outbound calls one callAIAPI invocation issues before it suspends.
callAIAPI_fetch_Twice == <<"fetch", "fetch">>
callAIAPI_fetch == <<"fetch">>

\* The body of the try block once fetch() has settled: the value it returns,
\* or the fact that it threw.
TryBody_Trim(reply) ==
    IF reply.fetch = "reject" THEN [threw |-> TRUE, value |-> Undefined]
    ELSE IF ~reply.ok THEN [threw |-> TRUE, value |-> Undefined]
    ELSE IF reply.json = "invalid" THEN [threw |-> TRUE, value |-> Undefined]
    ELSE IF reply.candidates # "list" THEN [threw |-> TRUE, value |-> Undefined]
    ELSE [threw |-> FALSE,
          value |-> IF reply.text = "  Plan de la IA  " THEN "Plan de la IA" ELSE reply.text]
TryBody(reply) ==
    IF reply.fetch = "reject" THEN [threw |-> TRUE, value |-> Undefined]
    ELSE IF ~reply.ok THEN [threw |-> TRUE, value |-> Undefined]
    ELSE IF reply.json = "invalid" THEN [threw |-> TRUE, value |-> Undefined]
    ELSE IF reply.candidates # "list" THEN [threw |-> TRUE, value |-> Undefined]
    ELSE [threw |-> FALSE, value |-> reply.text]

\* callAIAPI from the settlement of fetch() on: what the caller's await
\* produces.  events are the steps taken in the catch block.
callAIAPI_NoCatch(prompt, reply) ==
    [threw |-> TryBody(reply).threw, value |-> TryBody(reply).value, events |-> <<>>]
callAIAPI(prompt, reply) ==
    IF TryBody(reply).threw
    THEN [threw |-> FALSE, value |-> getFallbackResponse(prompt), events |-> <<"fallback">>]
    ELSE [threw |-> FALSE, value |-> TryBody(reply).value, events |-> <<>>]

\* ----------------------------------------------------------------------
\* AIService: audit record
\* ----------------------------------------------------------------------

\* The object saveAISuggestion hands to DatabaseService.insert, after insert
\* has given it an id.  (timestamp, createdAt and updatedAt are wall-clock
\* values and are left out.)
Suggestion(id, userId, prompt, response, context) ==
    [id |-> id, userId |-> userId, prompt |-> prompt, response |-> response,
     context |-> context]

NoSuggestion == Suggestion(0, "-", NoPrompt, "-", "-")

\* saveAISuggestion from the settlement of insert on: how its own promise
\* settles.  The catch block logs and does not rethrow.
saveAISuggestion_Rethrow(insertOk) == IF insertOk THEN "resolved" ELSE "rejected"
saveAISuggestion(insertOk) == "resolved"

\* ----------------------------------------------------------------------
\* JavaScript numbers
\* ----------------------------------------------------------------------

\* A JavaScript number is an IEEE 754 double: a sign, a significand of at
\* most 53 bits and a power of two.  The significand is a natural number
\* held in limbs of LimbBits bits, the least significant first, the most
\* significant not 0, so that the product of two limbs is an integer of the
\* model checker; the natural number 0 is the empty sequence.
LimbBits == 14
Base == 2^LimbBits
SignificandBits == 53

RECURSIVE SumSeq(_)
SumSeq(seq) == IF seq = <<>> THEN 0 ELSE Head(seq) + SumSeq(Tail(seq))

Limb(a, i) == IF i \in DOMAIN a THEN a[i] ELSE 0

\* The limbs without the most significant zeros.
Trim(a) ==
    LET used == {i \in DOMAIN a : a[i] # 0}
    IN  IF used = {} THEN << >>
        ELSE SubSeq(a, 1, CHOOSE i \in used : \A j \in used : j <= i)

\* A natural number below 2^31.
BigOfNat(n) == Trim(<<n % Base, (n \div Base) % Base, n \div (Base * Base)>>)

RECURSIVE BigAddFrom(_, _, _, _)
BigAddFrom(a, b, i, carry) ==
    IF i > Len(a) /\ i > Len(b)
    THEN IF carry = 0 THEN << >> ELSE <<carry>>
    ELSE LET s == Limb(a, i) + Limb(b, i) + carry
         IN  <<s % Base>> \o BigAddFrom(a, b, i + 1, s \div Base)
BigAdd(a, b) == BigAddFrom(a, b, 1, 0)

\* a - b, for a >= b.
RECURSIVE BigSubFrom(_, _, _, _)
BigSubFrom(a, b, i, borrow) ==
    IF i > Len(a) THEN << >>
    ELSE LET s == Limb(a, i) - Limb(b, i) - borrow
         IN  <<(s + Base) % Base>> \o BigSubFrom(a, b, i + 1, IF s < 0 THEN 1 ELSE 0)
BigSub(a, b) == Trim(BigSubFrom(a, b, 1, 0))

BigLess(a, b) ==
    \/ Len(a) < Len(b)
    \/ /\ Len(a) = Len(b)
       /\ \E i \in DOMAIN a : a[i] < b[i] /\ \A j \in DOMAIN a : j > i => a[j] = b[j]

\* The product of two significands, column by column.
RECURSIVE BigMulFrom(_, _, _, _)
BigMulFrom(a, b, k, carry) ==
    IF k > Len(a) + Len(b) THEN << >>
    ELSE LET s == SumSeq([i \in 1..Len(a) |-> a[i] * Limb(b, k + 1 - i)]) + carry
         IN  <<s % Base>> \o BigMulFrom(a, b, k + 1, s \div Base)
BigMul(a, b) == Trim(BigMulFrom(a, b, 1, 0))

\* a * 2^k and the integer part of a / 2^k.
BigShl(a, k) ==
    LET q == k \div LimbBits
        r == k % LimbBits
    IN  IF a = << >> THEN << >>
        ELSE [i \in 1..q |-> 0]
             \o Trim([i \in 1..(Len(a) + 1) |->
                        ((Limb(a, i) * 2^r) % Base) + (Limb(a, i - 1) \div 2^(LimbBits - r))])
BigShr(a, k) ==
    LET q == k \div LimbBits
        r == k % LimbBits
        rest == SubSeq(a, q + 1, Len(a))
    IN  Trim([i \in 1..Len(rest) |->
                (rest[i] \div 2^r) + ((Limb(rest, i + 1) % 2^r) * 2^(LimbBits - r))])

\* The number of bits of a, and the number of zero bits a > 0 ends with.
BitLen(a) ==
    IF a = << >> THEN 0
    ELSE (Len(a) - 1) * LimbBits
         + CHOOSE k \in 1..LimbBits : 2^(k - 1) <= a[Len(a)] /\ a[Len(a)] < 2^k
TrailingZeros(a) ==
    LET low == CHOOSE i \in DOMAIN a : a[i] # 0 /\ \A j \in DOMAIN a : j < i => a[j] = 0
    IN  (low - 1) * LimbBits
        + CHOOSE r \in 0..(LimbBits - 1) : a[low] % 2^r = 0 /\ a[low] % 2^(r + 1) # 0

\* a divided by a natural number 0 < c < Base: the quotient and the rest.
RECURSIVE BigDivFrom(_, _, _, _)
BigDivFrom(a, c, i, rest) ==
    IF i = 0 THEN [q |-> << >>, r |-> rest]
    ELSE LET cur == rest * Base + a[i]
             low == BigDivFrom(a, c, i - 1, cur % c)
         IN  [q |-> low.q \o <<cur \div c>>, r |-> low.r]
BigDiv(a, c) ==
    LET d == BigDivFrom(a, c, Len(a), 0) IN [q |-> Trim(d.q), r |-> d.r]

\* The double of significand m, times 2^e, negative if neg.  The significand
\* is kept odd, so that equal numbers are equal records; -0 is 0, as for ===.
Zero == [neg |-> FALSE, m |-> << >>, e |-> 0]
Double(neg, m, e) ==
    IF m = << >> THEN Zero
    ELSE [neg |-> neg, m |-> BigShr(m, TrailingZeros(m)), e |-> e + TrailingZeros(m)]

\* The double nearest to m * 2^e, or to a number just above it if inexact;
\* of two nearest doubles, the one with the even significand.  Exponents stay
\* far from the ends of the range of a double.
RoundToDouble(neg, m, e, inexact) ==
    LET s == BitLen(m) - SignificandBits
        q == BigShr(m, s)
        rest == BigSub(m, BigShl(q, s))
        half == BigShl(<<1>>, s - 1)
        up == \/ BigLess(half, rest)
              \/ rest = half /\ (inexact \/ q[1] % 2 = 1)
    IN  IF s <= 0 THEN Double(neg, m, e)
        ELSE Double(neg, IF up THEN BigAdd(q, <<1>>) ELSE q, e + s)

\* An integer, and the number a decimal literal num/den denotes.
FromInt(n) == Double(n < 0, BigOfNat(IF n < 0 THEN -n ELSE n), 0)

\* x + y, x - y, x * y, and x / y for y a whole number below Base (every
\* divisor of the code modelled is a count); x < y and x > y.
Plus(x, y) ==
    LET e == IF x.e < y.e THEN x.e ELSE y.e
        mx == BigShl(x.m, x.e - e)
        my == BigShl(y.m, y.e - e)
    IN  IF x = Zero THEN y
        ELSE IF y = Zero THEN x
        ELSE IF x.neg = y.neg THEN RoundToDouble(x.neg, BigAdd(mx, my), e, FALSE)
        ELSE IF BigLess(mx, my) THEN RoundToDouble(y.neg, BigSub(my, mx), e, FALSE)
        ELSE RoundToDouble(x.neg, BigSub(mx, my), e, FALSE)
Negated(x) == IF x = Zero THEN Zero ELSE [x EXCEPT !.neg = ~x.neg]
Minus(x, y) == Plus(x, Negated(y))
Times(x, y) ==
    IF x = Zero \/ y = Zero THEN Zero
    ELSE RoundToDouble(x.neg # y.neg, BigMul(x.m, y.m), x.e + y.e, FALSE)
DividedBy(x, y) ==
    LET k == SignificandBits + 2 + LimbBits
        d == BigDiv(BigShl(x.m, k), y.m[1])
    IN  IF x = Zero THEN Zero
        ELSE RoundToDouble(x.neg # y.neg, d.q, x.e - k - y.e, d.r # 0)
Less(x, y) == Minus(x, y).neg
Greater(x, y) == Less(y, x)

Decimal(num, den) == DividedBy(FromInt(num), FromInt(den))

\* ----------------------------------------------------------------------
\* AIService: trends
\* ----------------------------------------------------------------------

\* The value of a field the object does not have.
NoNumber == [undefined |-> TRUE]

\* A dated weight log.  weight 0 is a log without a value (weight missing,
\* null or 0: `filter(w => w)` drops all three).
Entry(timestamp, weight) == [timestamp |-> timestamp, weight |-> weight]

\* logs.map(log => log.weight)
MapWeight(logs) == [i \in DOMAIN logs |-> logs[i].weight]

RECURSIVE Truthies(_)
Truthies(ws) ==
    IF ws = <<>> THEN <<>>
    ELSE IF Head(ws) # Zero THEN <<Head(ws)>> \o Truthies(Tail(ws))
    ELSE Truthies(Tail(ws))

\* calculateTrends.  An object that is not an array has no length, so the
\* first guard does not return, and progressData.map is not a function.
\* weeklyChange is change / (weights.length - 1); the two early returns
\* have the trend and no other field.
calculateTrends(progressData) ==
    IF ~IsArray(progressData)
    THEN [threw |-> TRUE, error |-> "TypeError", trend |-> "-",
          fields |-> {}, weeklyChange |-> NoNumber]
    ELSE IF Len(progressData.items) < 2
    THEN [threw |-> FALSE, error |-> "-", trend |-> "insufficient_data",
          fields |-> {"trend"}, weeklyChange |-> NoNumber]
    ELSE LET weights == Truthies(MapWeight(progressData.items))
         IN  IF Len(weights) < 2
             THEN [threw |-> FALSE, error |-> "-", trend |-> "insufficient_weight_data",
                   fields |-> {"trend"}, weeklyChange |-> NoNumber]
             ELSE LET change == Minus(weights[Len(weights)], weights[1])
                  IN  [threw |-> FALSE, error |-> "-",
                       trend |-> IF Greater(change, Zero) THEN "increasing"
                                 ELSE IF Less(change, Zero) THEN "decreasing" ELSE "stable",
                       fields |-> {"trend", "weeklyChange", "totalChange", "consistency"},
                       weeklyChange |-> DividedBy(change, FromInt(Len(weights) - 1))]

\* ----------------------------------------------------------------------
\* Sorting by timestamp
\* ----------------------------------------------------------------------

\* logs.sort((a, b) => new Date(a.timestamp) - new Date(b.timestamp)): the
\* sort is stable.
InsertByTimestamp(log, sorted) ==
    LET k == Cardinality({i \in DOMAIN sorted : sorted[i].timestamp <= log.timestamp})
    IN  SubSeq(sorted, 1, k) \o <<log>> \o SubSeq(sorted, k + 1, Len(sorted))

RECURSIVE SortByTimestamp(_)
SortByTimestamp(logs) ==
    IF logs = << >> THEN << >>
    ELSE InsertByTimestamp(logs[Len(logs)], SortByTimestamp(SubSeq(logs, 1, Len(logs) - 1)))

\* ----------------------------------------------------------------------
\* AIController: data gathering
\* ----------------------------------------------------------------------

DefaultNutritionData == "{averageCalories:2000,averageProtein:150,averageCarbs:200,averageFat:67}"
ComputedNutritionData == "{averageCalories:...,recentLogs:[...]}"

\* getUserNutritionData.  find() is not awaited: nutritionLogs is a Promise,
\* nutritionLogs.length === 0 is false and nutritionLogs.reduce throws a
\* TypeError, which the catch block turns into the default averages.
getUserNutritionData(d, userId) ==
    LET nutritionLogs == find(d, "Nutrition", userId)
    IN  IF IsArray(nutritionLogs) THEN ComputedNutritionData ELSE DefaultNutritionData

\* `const now = new Date()`, in days.
Now == 365

\* The days the switch on timeRange goes back from now; the default branch
\* goes back 30 days, like '30_days'.
RangeDays(timeRange) ==
    CASE timeRange = "7_days"  -> 7
      [] timeRange = "30_days" -> 30
      [] timeRange = "90_days" -> 90
      [] OTHER                 -> 30

\* logs.filter(log => new Date(log.timestamp) >= startDate).sort(...)
History(logs, timeRange) ==
    SortByTimestamp(SelectSeq(logs.items,
                              LAMBDA log : log.timestamp >= Now - RangeDays(timeRange)))

\* getUserProgressData.  timeRange = '30_days' when the argument is
\* undefined.  find() is not awaited: weightLogs is a Promise, weightLogs.filter
\* throws a TypeError, and the catch block returns the three empty histories.
getUserProgressData(d, userId, timeRange) ==
    LET range == IF timeRange = Undefined THEN "30_days" ELSE timeRange
        weightLogs == find(d, "DailyLog", userId)
        workoutLogs == find(d, "Workouts", userId)
        nutritionLogs == find(d, "Nutrition", userId)
    IN  IF IsArray(weightLogs) /\ IsArray(workoutLogs) /\ IsArray(nutritionLogs)
        THEN ProgressObject(History(weightLogs, range), History(workoutLogs, range),
                            History(nutritionLogs, range), range)
        ELSE ProgressObject(<<>>, <<>>, <<>>, range)

\* The branch of the switch in getRecommendations.
Branch_Lax(type) ==
    IF type \in {"workout", "nutrition"} THEN type ELSE "motivation"
Branch(type) ==
    IF type \in {"workout", "nutrition", "motivation"} THEN type ELSE "default"

\* ----------------------------------------------------------------------
\* State
\* ----------------------------------------------------------------------

VARIABLES
    db,         \* Firestore: collection name -> (document id -> document)
    idCounter,  \* the auto-ids Firestore has handed out
    calls,      \* the advisory calls, by number
    process,    \* the Node process: "running", "rejection" while a rejected
                \* Promise that nobody handles awaits its report, "exited"
    args,       \* the arguments of a function that is studied on its own
    retval      \* what that function has produced so far

vars == <<db, idCounter, calls, process, args, retval>>

\* No function is studied on its own.
NoArgs == [fn |-> "-"]
NoRetval == [stage |-> "-"]

CallIds == DOMAIN calls

Outcome(kind, error, type, text, trend) ==
    [kind |-> kind, error |-> error, type |-> type, text |-> text, trend |-> trend]

NoOutcome == Outcome("none", "-", "-", "-", "-")
Throw(error) == Outcome("throw", error, "-", "-", "-")
Return(type, text, trend) == Outcome("return", "-", type, text, trend)

\* A call that has not been invoked.
\*   entry     the controller method invoked
\*   user      req.user.id (Null: no req.user)
\*   type      req.body.type, or req.body.timeRange for analyzeProgress
\*   context   req.body.context
\*   gathered  what the controller gathered for the AIService method, while
\*             the controller awaits it
\*   template  the AIService method in progress, by the prompt it builds
\*   progress  progressData of analyzeProgress
\*   prompt, reply, response   of callAIAPI
\*   doc       the object handed to DatabaseService.insert
\*   saved     "-" | "ok" | "failed": how the insert settled
\*   trace     the collaborator calls and the result, in order
IdleCall ==
    [pc |-> "idle", entry |-> "-", user |-> "-", type |-> "-", context |-> "-",
     gathered |-> "-", template |-> "-", progress |-> NoProgress, prompt |-> NoPrompt,
     reply |-> NoReply, response |-> "-", doc |-> NoSuggestion, saved |-> "-",
     outcome |-> NoOutcome, trace |-> <<>>]

\* A user document of the "users" collection.
Profile(id) == [id |-> id, goal |-> "strength"]

\* A suggestion written by an earlier advisory call.
EarlierSuggestion ==
    Suggestion(1, "u1", Prompt("motivation", <<"Usuario", "strength", "0", "No especificado", "{}">>),
               GenericFallback, "{type:motivation}")

InitWith(n) ==
    /\ db = [c \in Collections |->
                IF c = "users" THEN [u \in ProfileIds |-> Profile(u)]
                ELSE IF c = "aiSuggestions" THEN (1 :> EarlierSuggestion)
                ELSE << >>]
    /\ idCounter = 1
    /\ calls = [r \in 1..n |-> IdleCall]
    /\ process = "running"
    /\ args = NoArgs
    /\ retval = NoRetval

Init == InitWith(MaxCalls)

InitConc == InitWith(MaxInFlight)

\* Calls are invoked in the order of their numbers, while the process runs.
CanInvoke(r) ==
    /\ process # "exited"
    /\ calls[r].pc = "idle"
    /\ \A q \in CallIds : q < r => calls[q].pc # "idle"

\* No continuation of an await on a settled promise is waiting for its turn.
MicrotasksDrained == \A q \in CallIds : calls[q].pc # "gather"

\* The process once a method has made the calls of DatabaseService that
\* returned these promises and has neither awaited nor returned them: a
\* promise that rejects is handled by no code.
Unhandled(promises) ==
    IF \E p \in promises : p.state = "rejected" THEN "rejection" ELSE process

\* The promise of the findById('Users', user.id) of an AIController method.
Lookup(user) == IF user = Null THEN {} ELSE {findById(db, "Users", user)}

\* ----------------------------------------------------------------------
\* Steps shared by the four AIService methods
\* ----------------------------------------------------------------------

\* The method built its prompt and called callAIAPI, which called fetch().
\* userId and saveContext are the arguments saveAISuggestion will be given.
Suspend(c, template, prompt, userId, saveContext) ==
    [c EXCEPT !.pc = "fetch", !.template = template, !.prompt = prompt,
              !.doc = Suggestion(0, userId, NoPrompt, "-", saveContext),
              !.trace = @ \o callAIAPI_fetch]

\* The controller called one of its own async data methods, which called
\* DatabaseService.find and returned, and awaits the promise it got.
Await(c, gathered) ==
    [c EXCEPT !.pc = "gather", !.gathered = gathered, !.trace = Append(@, "find")]

\* The call ended before it reached AIService.
Reject(c, error) ==
    [c EXCEPT !.pc = "done", !.outcome = Throw(error), !.trace = Append(@, "throw")]

\* What the controller returns, or rethrows, once saveAISuggestion settled.
Finish(c, saveState) ==
    IF saveState = "rejected" THEN Throw("Error")
    ELSE IF c.template = "progress_analysis"
    THEN LET trends == calculateTrends(c.progress)
         IN  IF trends.threw THEN Throw(trends.error)
             ELSE Return(c.type, c.response, trends.trend)
    ELSE Return(c.type, c.response, "-")

\* callAIAPI returned to the AIService method, which ran saveAISuggestion up
\* to the set() of DatabaseService.insert: insert gave the record its id.
Inserting(c, got, id) ==
    [c EXCEPT !.pc = "insert", !.response = got.value,
              !.doc = Suggestion(id, c.doc.userId, c.prompt, got.value, c.doc.context),
              !.trace = @ \o got.events \o <<"insert">>]

\* ----------------------------------------------------------------------
\* AIController: the data of the plan and of the advice
\* ----------------------------------------------------------------------

\* getUserWorkoutHistory and getUserNutritionHistory: find() is not awaited,
\* the Promise has no sort, and the catch block returns [].
getUserHistory(d, collectionName, userId) ==
    IF IsArray(find(d, collectionName, userId)) THEN "[...]" ELSE "[]"

\* ----------------------------------------------------------------------
\* Actions
\* ----------------------------------------------------------------------

\* AIController.getRecommendations, up to its first suspension.  bound: the
\* method is called on the class; it is not when a router calls the function
\* it was given, and `this` is undefined.
getRecommendations(r, user, type, context, bound) ==
    /\ CanInvoke(r)
    /\ LET c == [calls[r] EXCEPT !.entry = "getRecommendations", !.user = user,
                                 !.type = type, !.context = context]
           userData == findById(db, "Users", user)
           looked == [c EXCEPT !.trace = Append(@, "findById")]
       IN  calls' = [calls EXCEPT ![r] =
             IF user = Null THEN Reject(c, "AuthenticationError")
             ELSE IF ~Truthy(userData) THEN Reject(looked, "NotFoundError")
             ELSE CASE Branch(type) = "workout" ->
                         Suspend(looked, "workout",
                                 buildWorkoutPrompt(userData, DefaultContext(context)),
                                 Prop(userData, "id"), DefaultContext(context))
                    [] Branch(type) = "nutrition" ->
                         IF bound THEN Await(looked, getUserNutritionData(db, user))
                         ELSE Reject(looked, "TypeError")
                    [] Branch(type) = "motivation" ->
                         Suspend(looked, "motivation",
                                 buildMotivationPrompt(userData, DefaultContext(context)),
                                 Prop(userData, "id"), "{type:motivation}")
                    [] OTHER -> Reject(looked, "ValidationError")]
    /\ process' = Unhandled(Lookup(user))
    /\ UNCHANGED <<db, idCounter, args, retval>>

\* AIController.analyzeProgress, up to its first suspension.
analyzeProgress(r, user, timeRange, bound) ==
    /\ CanInvoke(r)
    /\ LET c == [calls[r] EXCEPT !.entry = "analyzeProgress", !.user = user,
                                 !.type = "progress_analysis", !.context = timeRange]
           userData == findById(db, "Users", user)
           looked == [c EXCEPT !.trace = Append(@, "findById")]
           progressData == getUserProgressData(db, user, timeRange)
       IN  calls' = [calls EXCEPT ![r] =
             IF user = Null THEN Reject(c, "AuthenticationError")
             ELSE IF ~Truthy(userData) THEN Reject(looked, "NotFoundError")
             ELSE IF ~bound THEN Reject(looked, "TypeError")
             ELSE Await([looked EXCEPT !.progress = progressData], "progressData")]
    /\ process' = Unhandled(Lookup(user))
    /\ UNCHANGED <<db, idCounter, args, retval>>

\* AIController.generateWorkoutPlan, up to its first suspension.
generateWorkoutPlan(r, user, duration, bound) ==
    /\ CanInvoke(r)
    /\ LET c == [calls[r] EXCEPT !.entry = "generateWorkoutPlan", !.user = user,
                                 !.context = duration]
           userData == findById(db, "Users", user)
           looked == [c EXCEPT !.trace = Append(@, "findById")]
       IN  calls' = [calls EXCEPT ![r] =
             IF user = Null THEN Reject(c, "AuthenticationError")
             ELSE IF ~Truthy(userData) THEN Reject(looked, "NotFoundError")
             ELSE IF ~bound THEN Reject(looked, "TypeError")
             ELSE Await(looked, planContext(duration, getUserHistory(db, "Workouts", user)))]
    /\ process' = Unhandled(Lookup(user))
    /\ UNCHANGED <<db, idCounter, args, retval>>

\* AIController.getNutritionAdvice, up to its first suspension.
getNutritionAdvice(r, user, activityLevel, bound) ==
    /\ CanInvoke(r)
    /\ LET c == [calls[r] EXCEPT !.entry = "getNutritionAdvice", !.user = user,
                                 !.context = activityLevel]
           userData == findById(db, "Users", user)
           looked == [c EXCEPT !.trace = Append(@, "findById")]
       IN  calls' = [calls EXCEPT ![r] =
             IF user = Null THEN Reject(c, "AuthenticationError")
             ELSE IF ~Truthy(userData) THEN Reject(looked, "NotFoundError")
             ELSE IF ~bound THEN Reject(looked, "TypeError")
             ELSE Await(looked, adviceData(activityLevel,
                                           getUserHistory(db, "Nutrition", user)))]
    /\ process' = Unhandled(Lookup(user))
    /\ UNCHANGED <<db, idCounter, args, retval>>

\* AIController.getAIStats: find() on 'AISuggestions' is not awaited, and the
\* Promise has no slice.
getAIStats(r, user) ==
    /\ CanInvoke(r)
    /\ LET c == [calls[r] EXCEPT !.entry = "getAIStats", !.user = user]
       IN  calls' = [calls EXCEPT ![r] =
             IF user = Null THEN Reject(c, "AuthenticationError")
             ELSE Reject([c EXCEPT !.trace = Append(@, "find")], "TypeError")]
    /\ process' = Unhandled(IF user = Null THEN {}
                            ELSE {find(db, "AISuggestions", user)})
    /\ UNCHANGED <<db, idCounter, args, retval>>

\* The controller resumes from the await on its data method and calls the
\* AIService method, which runs up to fetch().
DataGathered(r) ==
    /\ process # "exited"
    /\ calls[r].pc = "gather"
    /\ LET c == calls[r]
           userData == findById(db, "Users", c.user)
       IN  calls' = [calls EXCEPT ![r] =
             CASE c.entry = "getRecommendations" ->
                     Suspend(c, "nutrition", buildNutritionPrompt(userData, c.gathered),
                             Prop(userData, "id"), "{type:nutrition}")
               [] c.entry = "analyzeProgress" ->
                     Suspend(c, "progress_analysis",
                             buildProgressAnalysisPrompt(userData, c.progress),
                             Prop(userData, "id"), "{type:progress_analysis}")
               [] c.entry = "generateWorkoutPlan" ->
                     Suspend(c, "workout", buildWorkoutPrompt(userData, c.gathered),
                             Prop(userData, "id"), c.gathered)
               [] OTHER ->
                     Suspend(c, "nutrition", buildNutritionPrompt(userData, c.gathered),
                             Prop(userData, "id"), "{type:nutrition}")]
    /\ UNCHANGED <<db, idCounter, process, args, retval>>

\* fetch() settles.  With a response that is ok, callAIAPI goes on to await
\* response.json(); otherwise its catch block picks the fallback, and
\* saveAISuggestion runs up to the set() of DatabaseService.insert.
FetchSettles(r, reply) ==
    /\ process = "running"
    /\ calls[r].pc = "fetch"
    /\ LET c == [calls[r] EXCEPT !.reply = reply]
           got == callAIAPI(c.prompt, reply)
           id == generateId(idCounter)
       IN  IF reply.fetch = "resolve" /\ reply.ok
           THEN /\ calls' = [calls EXCEPT ![r] = [c EXCEPT !.pc = "json"]]
                /\ UNCHANGED idCounter
           ELSE IF got.threw
           THEN /\ calls' = [calls EXCEPT ![r] =
                      [c EXCEPT !.pc = "done", !.outcome = Throw("Error"),
                                !.trace = @ \o got.events \o <<"throw">>]]
                /\ UNCHANGED idCounter
           ELSE /\ calls' = [calls EXCEPT ![r] = Inserting(c, got, id)]
                /\ idCounter' = id
    /\ UNCHANGED <<db, process, args, retval>>

\* response.json() settles: callAIAPI returns the text, or the fallback of
\* its catch block, and saveAISuggestion runs up to the set() of
\* DatabaseService.insert.
JsonSettles(r) ==
    /\ process = "running"
    /\ calls[r].pc = "json"
    /\ LET c == calls[r]
           got == callAIAPI(c.prompt, c.reply)
           id == generateId(idCounter)
       IN  IF got.threw
           THEN /\ calls' = [calls EXCEPT ![r] =
                      [c EXCEPT !.pc = "done", !.outcome = Throw("Error"),
                                !.trace = @ \o got.events \o <<"throw">>]]
                /\ UNCHANGED idCounter
           ELSE /\ calls' = [calls EXCEPT ![r] = Inserting(c, got, id)]
                /\ idCounter' = id
    /\ UNCHANGED <<db, process, args, retval>>

\* set() settles: saveAISuggestion finishes, the AIService method returns or
\* throws, and the controller passes that on.
InsertSettles(r, insertOk) ==
    /\ process = "running"
    /\ calls[r].pc = "insert"
    /\ LET c == calls[r]
           result == Finish(c, saveAISuggestion(insertOk))
       IN  calls' = [calls EXCEPT ![r] =
              [c EXCEPT !.pc = "done",
                        !.saved = IF insertOk THEN "ok" ELSE "failed",
                        !.outcome = result,
                        !.trace = Append(@, result.kind)]]
    /\ db' = IF insertOk THEN insert(db, "aiSuggestions", calls[r].doc) ELSE db
    /\ UNCHANGED <<idCounter, process, args, retval>>

\* The rejection that nobody handled is reported once the awaits on settled
\* promises have resumed.  Node ends the process, by its default and by the
\* listener of the Express application.
ProcessExits ==
    /\ process = "rejection"
    /\ MicrotasksDrained
    /\ process' = "exited"
    /\ UNCHANGED <<db, idCounter, calls, args, retval>>

\* A runtime that only reports the rejection.
RejectionOnlyLogged ==
    /\ process = "rejection"
    /\ MicrotasksDrained
    /\ process' = "running"
    /\ UNCHANGED <<db, idCounter, calls, args, retval>>

Next ==
    \/ \E r \in CallIds, user \in RequestUsers, type \in RequestTypes,
          context \in Contexts, bound \in BOOLEAN :
          getRecommendations(r, user, type, context, bound)
    \/ \E r \in CallIds, user \in RequestUsers, timeRange \in TimeRanges, bound \in BOOLEAN :
          analyzeProgress(r, user, timeRange, bound)
    \/ \E r \in CallIds, user \in RequestUsers, duration \in Durations, bound \in BOOLEAN :
          generateWorkoutPlan(r, user, duration, bound)
    \/ \E r \in CallIds, user \in RequestUsers, activityLevel \in AdviceActivityLevels,
          bound \in BOOLEAN :
          getNutritionAdvice(r, user, activityLevel, bound)
    \/ \E r \in CallIds, user \in RequestUsers : getAIStats(r, user)
    \/ \E r \in CallIds : DataGathered(r)
    \/ \E r \in CallIds, reply \in Replies : FetchSettles(r, reply)
    \/ \E r \in CallIds : JsonSettles(r)
    \/ \E r \in CallIds, insertOk \in BOOLEAN : InsertSettles(r, insertOk)
    \/ ProcessExits
    \/ RejectionOnlyLogged

Spec == Init /\ [][Next]_vars

\* Concurrent calls: any call that is suspended may be the next to resume.
NextConc ==
    \/ \E r \in CallIds, user \in ConcUsers, type \in ConcTypes,
          context \in ConcContexts, bound \in BOOLEAN :
          getRecommendations(r, user, type, context, bound)
    \/ \E r \in CallIds, user \in ConcDataUsers, timeRange \in TimeRanges, bound \in BOOLEAN :
          analyzeProgress(r, user, timeRange, bound)
    \/ \E r \in CallIds, user \in ConcDataUsers, duration \in ConcContexts, bound \in BOOLEAN :
          generateWorkoutPlan(r, user, duration, bound)
    \/ \E r \in CallIds, user \in ConcDataUsers, activityLevel \in ConcContexts,
          bound \in BOOLEAN :
          getNutritionAdvice(r, user, activityLevel, bound)
    \/ \E r \in CallIds, user \in ConcDataUsers : getAIStats(r, user)
    \/ \E r \in CallIds : DataGathered(r)
    \/ \E r \in CallIds, reply \in ConcReplies : FetchSettles(r, reply)
    \/ \E r \in CallIds : JsonSettles(r)
    \/ \E r \in CallIds, insertOk \in BOOLEAN : InsertSettles(r, insertOk)
    \/ ProcessExits
    \/ RejectionOnlyLogged

SpecConc == InitConc /\ [][NextConc]_vars

\* ----------------------------------------------------------------------
\* The prompt builders and the fallback selection, on their own
\* ----------------------------------------------------------------------

\* The values a field of a user document may hold; Undefined is a field
\* the document does not have.
Goals == {"perder peso", "mejorar mi nutrición", "a better workout", Undefined}
ExperienceLevels == {"beginner", Undefined}
Equipments == {"[mancuernas]", Undefined, Null}
Ages == {"30", Undefined, Null}
Weights == {"70", Undefined}
Heights == {"175", Undefined}
ActivityLevels == {"Alto", Undefined}

\* userData as the AIService methods expect it: the user document.
UserData(goal, experienceLevel, equipment, age, currentWeight, height, activityLevel) ==
    [kind |-> "object",
     doc |-> [id |-> "u1", name |-> Undefined, goal |-> goal,
              experienceLevel |-> experienceLevel, equipment |-> equipment,
              age |-> age, currentWeight |-> currentWeight,
              initialWeight |-> Undefined, height |-> height,
              activityLevel |-> activityLevel]]

UserDatas ==
    { UserData(g, e, q, a, w, h, l) :
        g \in Goals, e \in ExperienceLevels, q \in Equipments, a \in Ages,
        w \in Weights, h \in Heights, l \in ActivityLevels }

\* The context argument of generateWorkoutRecommendation and
\* generateMotivation: none, those of a request body, and the one
\* generateWorkoutPlan puts together.
PromptContexts == {Undefined, "{}", "{consecutiveDays:5,lastWorkout:ayer}",
                   planContext(Undefined, "[]")}

\* The nutritionData argument of generateNutritionAdvice: the averages of
\* getUserNutritionData, and the data getNutritionAdvice puts together.
PromptNutritionDatas == {DefaultNutritionData, adviceData(Undefined, "[]")}

\* Prompt texts that no builder made, handed to callAIAPI directly.
Texts == {"hola", "plan de entrenamiento en casa", "mejorar mi nutrición",
          "a better workout", "nutrition tips", "workout and nutrition",
          "entrenamiento y nutrición"}

InitPrompt ==
    /\ db = [c \in Collections |-> << >>]
    /\ idCounter = 0
    /\ calls = << >>
    /\ process = "running"
    /\ args \in { [fn |-> "prompt", userData |-> u, context |-> c] :
                    u \in UserDatas, c \in PromptContexts }
    /\ retval = [stage |-> "start", intent |-> "-", prompt |-> NoPrompt, fallback |-> "-"]

\* The prompt an AIService method builds for its intent.
BuildPrompt(intent, nutritionData) ==
    /\ retval.stage = "start"
    /\ retval' = [retval EXCEPT !.stage = "built", !.intent = intent, !.prompt =
          CASE intent = "workout" ->
                 buildWorkoutPrompt(args.userData, DefaultContext(args.context))
            [] intent = "nutrition" ->
                 buildNutritionPrompt(args.userData, nutritionData)
            [] intent = "progress_analysis" ->
                 buildProgressAnalysisPrompt(args.userData,
                     ProgressObject(<<>>, <<>>, <<>>, "30_days"))
            [] intent = "motivation" ->
                 buildMotivationPrompt(args.userData, DefaultContext(args.context))]
    /\ UNCHANGED <<process, db, idCounter, calls, args>>

\* callAIAPI is given a text that no builder made.
TakeText(text) ==
    /\ retval.stage = "start"
    /\ retval' = [retval EXCEPT !.stage = "built", !.prompt = Prompt("", <<text>>)]
    /\ UNCHANGED <<process, db, idCounter, calls, args>>

\* The endpoint call failed: the catch block of callAIAPI selects the
\* fallback for the prompt.
SelectFallback ==
    /\ retval.stage = "built"
    /\ retval' = [retval EXCEPT !.stage = "fallback",
                                !.fallback = getFallbackResponse(retval.prompt)]
    /\ UNCHANGED <<process, db, idCounter, calls, args>>

NextPrompt ==
    \/ \E intent \in Intents, nutritionData \in PromptNutritionDatas :
          BuildPrompt(intent, nutritionData)
    \/ \E text \in Texts : TakeText(text)
    \/ SelectFallback

SpecPrompt == InitPrompt /\ [][NextPrompt]_vars

\* ----------------------------------------------------------------------
\* The trend computations, on their own
\* ----------------------------------------------------------------------

\* The longest array of weight logs a trend computation is given.
MaxSeriesLen == 5

\* array.reduce((sum, val) => sum + val, sum)
RECURSIVE reduce(_, _)
reduce(array, sum) ==
    IF array = <<>> THEN sum ELSE reduce(Tail(array), Plus(sum, Head(array)))

\* The slope of the simple linear regression of the weights over their
\* indices 0 .. n-1, every sum, product, difference and quotient rounded
\* to a double as it is computed.
regressionSlope(weights) ==
    LET n == Len(weights)
        x == [i \in 1..n |-> FromInt(i - 1)]
        y == weights
        sumX == reduce(x, Zero)
        sumY == reduce(y, Zero)
        sumXY == reduce([i \in 1..n |-> Times(x[i], y[i])], Zero)
        sumXX == reduce([i \in 1..n |-> Times(x[i], x[i])], Zero)
    IN  DividedBy(Minus(Times(FromInt(n), sumXY), Times(sumX, sumY)),
                  Minus(Times(FromInt(n), sumXX), Times(sumX, sumX)))

\* slope > 0.1 ? 'increasing' : slope < -0.1 ? 'decreasing' : 'stable'
trendOf(slope) ==
    IF Greater(slope, Decimal(1, 10)) THEN "increasing"
    ELSE IF Less(slope, Negated(Decimal(1, 10))) THEN "decreasing"
    ELSE "stable"

\* ProgressController.calculateWeightTrend
calculateWeightTrend(weightLogs) ==
    IF Len(weightLogs) < 2
    THEN [trend |-> "insufficient_data", slope |-> Zero]
    ELSE LET weights == Truthies(MapWeight(weightLogs))
         IN  IF Len(weights) < 2
             THEN [trend |-> "insufficient_data", slope |-> Zero]
             ELSE LET slope == regressionSlope(weights)
                  IN  [trend |-> trendOf(slope), slope |-> slope]

\* ProgressController.calculateProgressStats, its weight statistics: the
\* trend and the change.
calculateProgressStats(weightLogs) ==
    LET weights == Truthies(MapWeight(weightLogs))
        change == IF Len(weights) > 1 THEN Minus(weights[Len(weights)], weights[1]) ELSE Zero
    IN  [trend |-> IF Greater(change, Zero) THEN "increasing"
                   ELSE IF Less(change, Zero) THEN "decreasing" ELSE "stable",
         slope |-> change]

\* The weights a log may hold: none, 0.7, 1, 2 and 3.
LoggedWeights == {Zero, Decimal(7, 10), FromInt(1), FromInt(2), FromInt(3)}

\* The arrays of logs a trend computation may be given as its parameter: at
\* most MaxSeriesLen logs, one a day from day 1 on, the earliest first or
\* the latest first.
WeightLogs ==
    UNION { { [i \in 1..n |-> Entry(IF latestFirst THEN n + 1 - i ELSE i, weights[i])] :
                weights \in [1..n -> LoggedWeights], latestFirst \in BOOLEAN } :
            n \in 0..MaxSeriesLen }

\* req.user.id (Null: no req.user), req.params.timeRange, req.body.weight
\* (0: none, which is as falsy as 0) and the values of req.body.measurements
\* of the requests to ProgressController.
ProgressUsers == {"u1", Null}
ProgressRanges == {Undefined, "30_days", "all"}
BodyWeights == {0, 20, 70}
BodyMeasurements == {<< >>, <<10>>, <<80>>}

\* The three find() of getProgress and getAnalytics, none of them awaited.
progressFinds(d, userId) ==
    {find(d, "DailyLog", userId), find(d, "Workouts", userId), find(d, "Nutrition", userId)}

\* ProgressController.getAnalytics: the error it rejects with ("-": none).
\* find() is not awaited: weightLogs is a Promise, and weightLogs.filter
\* (with a timeRange) or weightLogs.map of calculateWeightTrend (without) is
\* a TypeError.  bound: the method is called on its class; when it is not,
\* this.calculateDetailedAnalytics is a TypeError as well.  Only on arrays,
\* which find() never returns, would calculateWeightTrend see the logs.
getAnalytics(d, user, timeRange, bound) ==
    IF user = Null THEN "AuthenticationError"
    ELSE IF ~IsArray(find(d, "DailyLog", user)) \/ ~bound THEN "TypeError"
    ELSE "-"

\* ProgressController.getProgress: the error it rejects with ("-": none).
\* weightLogs.filter (with a timeRange) or filteredWeightLogs.sort (without)
\* is a TypeError on the Promise, before calculateProgressStats is called.
getProgress(d, user, timeRange, bound) ==
    IF user = Null THEN "AuthenticationError"
    ELSE IF ~IsArray(find(d, "DailyLog", user)) \/ ~bound THEN "TypeError"
    ELSE "-"

\* ValidationMiddleware.validateWeightLog accepts the body.
validateWeightLog(weight) == weight # 0 /\ weight >= 30 /\ weight <= 300

\* ValidationMiddleware.validateOnboardingData accepts the body, by its
\* measurements.
validateOnboardingData(measurements) ==
    \A i \in DOMAIN measurements : measurements[i] >= 20 /\ measurements[i] <= 200

\* logWeight, logMeasurements and logNutrition once the body is given: the
\* error the handler rejects with, and whether DatabaseService.insert was
\* called, which draws an id.  The handler returns the promise of insert.
logInto(d, collectionName, user, valid) ==
    IF user = Null THEN [error |-> "AuthenticationError", inserts |-> FALSE]
    ELSE IF ~valid THEN [error |-> "ValidationError", inserts |-> FALSE]
    ELSE IF insertPromise(d, collectionName).state = "rejected"
    THEN [error |-> insertPromise(d, collectionName).value, inserts |-> TRUE]
    ELSE [error |-> "-", inserts |-> TRUE]

\* The calculations are studied as functions of their parameter.  In the
\* repository no caller reaches them with an array: getAnalytics and
\* getProgress hold the un-awaited Promise of find('DailyLog') and throw
\* before a trend is computed, and analyzeProgress passes an object to
\* calculateTrends.  One behaviour is one call: of a calculation on the
\* array, or of a route handler of ProgressController on the store.
InitTrend ==
    /\ db = [c \in Collections |-> << >>]
    /\ idCounter = 0
    /\ calls = << >>
    /\ process = "running"
    /\ \E weightLogs \in WeightLogs : args = [fn |-> "trend", weightLogs |-> weightLogs]
    /\ retval = [stage |-> "start", trend |-> "-", slope |-> Zero, error |-> "-"]

\* ProgressController.calculateWeightTrend(weightLogs)
CalculateWeightTrend ==
    /\ retval.stage = "start"
    /\ LET r == calculateWeightTrend(args.weightLogs)
       IN  retval' = [stage |-> "calculateWeightTrend", trend |-> r.trend, slope |-> r.slope,
                         error |-> "-"]
    /\ UNCHANGED <<process, db, idCounter, calls, args>>

\* AIService.calculateTrends(progressData), progressData an array of logs.
CalculateTrends ==
    /\ retval.stage = "start"
    /\ LET r == calculateTrends([kind |-> "array", items |-> args.weightLogs])
       IN  retval' = [stage |-> "calculateTrends", trend |-> r.trend, slope |-> r.weeklyChange,
                         error |-> "-"]
    /\ UNCHANGED <<process, db, idCounter, calls, args>>

\* ProgressController.calculateProgressStats(weightLogs, [], [])
CalculateProgressStats ==
    /\ retval.stage = "start"
    /\ LET r == calculateProgressStats(args.weightLogs)
       IN  retval' = [stage |-> "calculateProgressStats", trend |-> r.trend, slope |-> r.slope,
                         error |-> "-"]
    /\ UNCHANGED <<process, db, idCounter, calls, args>>

\* ProgressController.getAnalytics(req, res), up to its rejection; the
\* promises of its three find() reject with nobody to handle them.
GetAnalytics(user, timeRange, bound) ==
    /\ process = "running"
    /\ retval.stage = "start"
    /\ retval' = [retval EXCEPT !.stage = "getAnalytics",
                                !.error = getAnalytics(db, user, timeRange, bound)]
    /\ process' = Unhandled(IF user = Null THEN {} ELSE progressFinds(db, user))
    /\ UNCHANGED <<db, idCounter, calls, args>>

\* ProgressController.getProgress(req, res), up to its rejection.
GetProgress(user, timeRange, bound) ==
    /\ process = "running"
    /\ retval.stage = "start"
    /\ retval' = [retval EXCEPT !.stage = "getProgress",
                                !.error = getProgress(db, user, timeRange, bound)]
    /\ process' = Unhandled(IF user = Null THEN {} ELSE progressFinds(db, user))
    /\ UNCHANGED <<db, idCounter, calls, args>>

\* ProgressController.logWeight(req, res): insert draws an id and fails on
\* the collection 'DailyLog', which this.collections does not have; nothing
\* is stored, and the handler rejects with the TypeError of insert.
LogWeight(user, weight) ==
    /\ process = "running"
    /\ retval.stage = "start"
    /\ LET r == logInto(db, "DailyLog", user, validateWeightLog(weight))
       IN  /\ retval' = [retval EXCEPT !.stage = "logWeight", !.error = r.error]
           /\ idCounter' = IF r.inserts THEN generateId(idCounter) ELSE idCounter
           /\ db' = IF r.inserts /\ r.error = "-"
                    THEN insert(db, "DailyLog", [id |-> generateId(idCounter), weight |-> weight])
                    ELSE db
    /\ UNCHANGED <<process, calls, args>>

\* ProgressController.logMeasurements(req, res)
LogMeasurements(user, measurements) ==
    /\ process = "running"
    /\ retval.stage = "start"
    /\ LET r == logInto(db, "DailyLog", user, validateOnboardingData(measurements))
       IN  /\ retval' = [retval EXCEPT !.stage = "logMeasurements", !.error = r.error]
           /\ idCounter' = IF r.inserts THEN generateId(idCounter) ELSE idCounter
           /\ db' = IF r.inserts /\ r.error = "-"
                    THEN insert(db, "DailyLog", [id |-> generateId(idCounter), measurements |-> measurements])
                    ELSE db
    /\ UNCHANGED <<process, calls, args>>

NextTrend ==
    \/ CalculateWeightTrend
    \/ CalculateTrends
    \/ CalculateProgressStats
    \/ \E user \in ProgressUsers, timeRange \in ProgressRanges, bound \in BOOLEAN :
          GetAnalytics(user, timeRange, bound)
    \/ \E user \in ProgressUsers, timeRange \in ProgressRanges, bound \in BOOLEAN :
          GetProgress(user, timeRange, bound)
    \/ \E user \in ProgressUsers, weight \in BodyWeights : LogWeight(user, weight)
    \/ \E user \in ProgressUsers, measurements \in BodyMeasurements :
          LogMeasurements(user, measurements)
    \/ ProcessExits
    \/ RejectionOnlyLogged

SpecTrend == InitTrend /\ [][NextTrend]_vars

\* ----------------------------------------------------------------------
\* NutritionController: the consistency of the nutrition logs
\* ----------------------------------------------------------------------

\* The longest array of nutrition logs calculateNutritionStats is given, and
\* the last day a log is dated.
MaxLogs == 4
MaxDay == 4

\* A timestamp is a number of hours; a log is made in the morning or in the
\* evening of its day.
Timestamps == { 24 * day + hour : day \in 1..MaxDay, hour \in {8, 20} }

\* The time zones of the server.  In "America/New_York" the clocks go
\* forward on day 2, which has 23 hours; in "UTC" every day has 24.
Zones == {"UTC", "America/New_York"}

\* The hour at which a calendar day of the zone begins.
Midnight(day, zone) ==
    IF zone = "America/New_York" /\ day > 2 THEN 24 * day - 1 ELSE 24 * day

\* new Date(timestamp).toDateString(): the calendar day of the zone.
DayOf(timestamp, zone) ==
    CHOOSE day \in 0..(MaxDay + 1) :
        Midnight(day, zone) <= timestamp /\ timestamp < Midnight(day + 1, zone)

\* Math.floor((new Date(logDate) - new Date(lastDate)) / (1000 * 60 * 60 * 24))
daysDiffOf(logDate, lastDate, zone) ==
    (Midnight(logDate, zone) - Midnight(lastDate, zone)) \div 24

\* The forEach over the sorted logs, from log i on: currentConsecutive is 1
\* for the first log, one more than before when the log is dated exactly
\* one day after the previous log, and 1 again otherwise.
RECURSIVE forEachLog(_, _, _, _, _)
forEachLog(logs, zone, i, currentConsecutive, maxConsecutive) ==
    IF i > Len(logs) THEN maxConsecutive
    ELSE LET daysDiff == IF i = 1 THEN 0
                         ELSE daysDiffOf(DayOf(logs[i].timestamp, zone),
                                         DayOf(logs[i - 1].timestamp, zone), zone)
             current == IF i > 1 /\ daysDiff = 1 THEN currentConsecutive + 1 ELSE 1
         IN  forEachLog(logs, zone, i + 1, current,
                        IF current > maxConsecutive THEN current ELSE maxConsecutive)

\* calculateNutritionStats: the logs as the sort leaves them, and the
\* consistency.
calculateNutritionStats(nutritionLogs, zone) ==
    IF Len(nutritionLogs) = 0
    THEN [logs |-> nutritionLogs, total |-> 0, consistency |-> 0]
    ELSE [logs |-> SortByTimestamp(nutritionLogs),
          total |-> Len(nutritionLogs),
          consistency |-> forEachLog(SortByTimestamp(nutritionLogs), zone, 1, 0, 0)]

\* The arrays of logs calculateNutritionStats may be given as its parameter:
\* at most MaxLogs logs, in any order, any number of them on the same day.
NutritionLogs ==
    UNION { [1..n -> {[timestamp |-> timestamp] : timestamp \in Timestamps}] : n \in 0..MaxLogs }

\* req.body.calories (0: none, which is as falsy as 0) and
\* req.params.startDate of the requests to NutritionController.
BodyCalories == {0, 500, 20000}
StartDates == {Undefined, "2024-03-01"}

\* ValidationMiddleware.validateNutritionLog accepts the body, by its
\* calories.
validateNutritionLog(calories) == calories = 0 \/ (calories >= 0 /\ calories <= 10000)

\* NutritionController.getNutritionGoals: userData is the Promise of
\* findById, which is truthy and has no goal; the goals are the default
\* ones.  Called without its class, this.calculateNutritionGoals is a
\* TypeError.
getNutritionGoals(d, user, bound) ==
    IF user = Null THEN "AuthenticationError"
    ELSE IF ~Truthy(findById(d, "Users", user)) THEN "NotFoundError"
    ELSE IF ~bound THEN "TypeError"
    ELSE "-"

\* NutritionController.getNutritionHistory: the error it rejects with, and
\* the consistency of its stats.  find() is not awaited: nutritionLogs.filter
\* (with a startDate) or nutritionLogs.sort (without) is a TypeError.
getNutritionHistory(d, user, zone, bound) ==
    LET nutritionLogs == find(d, "Nutrition", user)
    IN  IF user = Null THEN [error |-> "AuthenticationError", consistency |-> 0]
        ELSE IF ~IsArray(nutritionLogs) \/ ~bound
        THEN [error |-> "TypeError", consistency |-> 0]
        ELSE [error |-> "-",
              consistency |-> calculateNutritionStats(nutritionLogs.items, zone).consistency]

\* NutritionController.getNutritionRecommendations: nutritionLogs.sort is a
\* TypeError on the Promise of find().
getNutritionRecommendations(d, user, zone, bound) ==
    LET nutritionLogs == find(d, "Nutrition", user)
    IN  IF user = Null THEN [error |-> "AuthenticationError", consistency |-> 0]
        ELSE IF ~Truthy(findById(d, "Users", user))
        THEN [error |-> "NotFoundError", consistency |-> 0]
        ELSE IF ~IsArray(nutritionLogs) \/ ~bound
        THEN [error |-> "TypeError", consistency |-> 0]
        ELSE [error |-> "-",
              consistency |-> calculateNutritionStats(nutritionLogs.items, zone).consistency]

\* The function is studied as a function of its parameter.  In the
\* repository no caller reaches it with an array: getNutritionHistory and
\* getNutritionRecommendations hold the un-awaited Promise of
\* find('Nutrition') and throw before the call.  One behaviour is one call:
\* of the function on the array, or of a route handler of
\* NutritionController on the store.
InitStreak ==
    /\ db = [c \in Collections |-> << >>]
    /\ idCounter = 0
    /\ calls = << >>
    /\ process = "running"
    /\ \E zone \in Zones, nutritionLogs \in NutritionLogs :
          args = [fn |-> "consistency", zone |-> zone, nutritionLogs |-> nutritionLogs]
    /\ retval = [stage |-> "start", consistency |-> 0, error |-> "-"]

\* NutritionController.calculateNutritionStats(nutritionLogs); the sort is
\* of the array of the caller, in place.
CalculateNutritionStats ==
    /\ retval.stage = "start"
    /\ LET stats == calculateNutritionStats(args.nutritionLogs, args.zone)
       IN  /\ args' = [args EXCEPT !.nutritionLogs = stats.logs]
           /\ retval' = [stage |-> "calculateNutritionStats",
                         consistency |-> stats.consistency, error |-> "-"]
    /\ UNCHANGED <<process, db, idCounter, calls>>

\* NutritionController.getNutritionGoals(req, res): it returns, or rejects;
\* the promise of its findById('Users') rejects with nobody to handle it.
GetNutritionGoals(user, bound) ==
    /\ process = "running"
    /\ retval.stage = "start"
    /\ retval' = [retval EXCEPT !.stage = "getNutritionGoals",
                                !.error = getNutritionGoals(db, user, bound)]
    /\ process' = Unhandled(Lookup(user))
    /\ UNCHANGED <<db, idCounter, calls, args>>

\* NutritionController.logNutrition(req, res): insert draws an id and fails
\* on the collection 'Nutrition', which this.collections does not have.
LogNutrition(user, calories) ==
    /\ process = "running"
    /\ retval.stage = "start"
    /\ LET r == logInto(db, "Nutrition", user, validateNutritionLog(calories))
       IN  /\ retval' = [retval EXCEPT !.stage = "logNutrition", !.error = r.error]
           /\ idCounter' = IF r.inserts THEN generateId(idCounter) ELSE idCounter
           /\ db' = IF r.inserts /\ r.error = "-"
                    THEN insert(db, "Nutrition",
                                [id |-> generateId(idCounter), calories |-> calories])
                    ELSE db
    /\ UNCHANGED <<process, calls, args>>

\* NutritionController.getNutritionHistory(req, res), up to its rejection.
\* With or without a startDate, it is a TypeError on the Promise of find().
GetNutritionHistory(user, startDate, bound) ==
    /\ process = "running"
    /\ retval.stage = "start"
    /\ LET r == getNutritionHistory(db, user, args.zone, bound)
       IN  retval' = [stage |-> "getNutritionHistory", consistency |-> r.consistency,
                      error |-> r.error]
    /\ process' = Unhandled(IF user = Null THEN {} ELSE {find(db, "Nutrition", user)})
    /\ UNCHANGED <<db, idCounter, calls, args>>

\* NutritionController.getNutritionRecommendations(req, res), up to its
\* rejection.
GetNutritionRecommendations(user, bound) ==
    /\ process = "running"
    /\ retval.stage = "start"
    /\ LET r == getNutritionRecommendations(db, user, args.zone, bound)
       IN  retval' = [stage |-> "getNutritionRecommendations",
                      consistency |-> r.consistency, error |-> r.error]
    /\ process' = Unhandled(IF user = Null THEN {}
                            ELSE Lookup(user) \cup {find(db, "Nutrition", user)})
    /\ UNCHANGED <<db, idCounter, calls, args>>

NextStreak ==
    \/ CalculateNutritionStats
    \/ \E user \in ProgressUsers, bound \in BOOLEAN : GetNutritionGoals(user, bound)
    \/ \E user \in ProgressUsers, calories \in BodyCalories : LogNutrition(user, calories)
    \/ \E user \in ProgressUsers, startDate \in StartDates, bound \in BOOLEAN :
          GetNutritionHistory(user, startDate, bound)
    \/ \E user \in ProgressUsers, bound \in BOOLEAN : GetNutritionRecommendations(user, bound)
    \/ ProcessExits
    \/ RejectionOnlyLogged

SpecStreak == InitStreak /\ [][NextStreak]_vars

\* ----------------------------------------------------------------------
\* The advisory calls, with what is sure to happen
\* ----------------------------------------------------------------------

\* The set() of the Firestore client settles: its requests carry a deadline.
\* When it has settled, the event loop resumes the call that awaits it.
InsertSettlesEventually == \E r \in CallIds, insertOk \in BOOLEAN : InsertSettles(r, insertOk)

\* An await on a promise that has settled resumes in the same turn of the
\* event loop.
DataGatheredEventually == \E r \in CallIds : DataGathered(r)

\* The fetch() of callAIAPI is given no timeout and no abort signal, and no
\* timer runs beside it: the call resumes when the endpoint answers or the
\* connection fails, and nothing in the code makes either happen.
SpecLive ==
    Init /\ [][Next]_vars /\ WF_vars(InsertSettlesEventually)
         /\ WF_vars(DataGatheredEventually)

\* ----------------------------------------------------------------------
\* AIController.getUserProgressData, on its own
\* ----------------------------------------------------------------------

\* The days before now a stored weight log may be dated, and the timeRange a
\* caller may supply (Undefined: none).
LogAges == {5, 20, 60, 120}
SuppliedRanges == {"7_days", "30_days", "90_days", "all", Undefined}

\* The weight logs of the user that Firestore holds, in any order: they
\* were put there from outside, as logWeight stores none.
StoredLogs ==
    { [i \in DOMAIN ages |-> [userId |-> "u1", timestamp |-> Now - ages[i]]] :
        ages \in { s \in UNION { [1..n -> LogAges] : n \in 0..Cardinality(LogAges) } :
                     \A i, j \in DOMAIN s : i # j => s[i] # s[j] } }

InitRange ==
    /\ \E logs \in StoredLogs :
          db = [c \in Collections |-> IF c = "progress" THEN logs ELSE << >>]
    /\ idCounter = 0
    /\ calls = << >>
    /\ process = "running"
    /\ args = [fn |-> "range", userId |-> "u1"]
    /\ retval = [stage |-> "start", timeRange |-> "-", history |-> << >>, error |-> "-"]

\* await this.getUserProgressData(user.id, timeRange): the find() on
\* 'DailyLog' is not awaited, and the catch block is entered at its filter.
GetUserProgressData(timeRange) ==
    /\ retval.stage = "start"
    /\ retval' = [stage |-> "gathered", timeRange |-> timeRange,
                  history |-> getUserProgressData(db, args.userId, timeRange).weightHistory,
                  error |-> "-"]
    /\ process' = Unhandled({find(db, "DailyLog", args.userId)})
    /\ UNCHANGED <<db, idCounter, calls, args>>

NextRange ==
    \/ \E user \in ProgressUsers, weight \in BodyWeights : LogWeight(user, weight)
    \/ \E user \in ProgressUsers, measurements \in BodyMeasurements :
          LogMeasurements(user, measurements)
    \/ \E timeRange \in SuppliedRanges : GetUserProgressData(timeRange)
    \/ ProcessExits
    \/ RejectionOnlyLogged

SpecRange == InitRange /\ [][NextRange]_vars

\* ----------------------------------------------------------------------
\* WorkoutController: requests on one workout
\* ----------------------------------------------------------------------

\* The requests served in one behaviour.
MaxRequests == 2

\* The workouts of the store ("w3" is the id of no workout; Undefined: the
\* request has no req.params.id), and who asks.
WorkoutIds == {"w1", "w2", "w3", Undefined}
WorkoutOwner == [id \in {"w1", "w2"} |-> IF id = "w1" THEN "u1" ELSE "u2"]
WorkoutUsers == {"u1", "u2", Null}
WorkoutOps == {"getWorkout", "updateWorkout", "deleteWorkout", "addFeedback"}

\* The methods of the routes without :id, and req.body.exerciseName of
\* createWorkout.
WorkoutListOps == {"getWorkouts", "createWorkout", "getWorkoutStats"}
ExerciseNames == {Undefined, "sentadilla"}

\* ValidationMiddleware.validateWorkoutLog accepts the body.
validateWorkoutLog(exerciseName) == exerciseName # Undefined

\* A document of the workouts collection; revision counts its updates.
Workout(id, userId) == [id |-> id, userId |-> userId, revision |-> 0]

\* The effect of DatabaseService.update and DatabaseService.delete: on a
\* name that is no key of this.collections the method rejects with a
\* TypeError and writes nothing.
update(d, collectionName, id) ==
    IF collectionName \in DOMAIN d /\ id \in DOMAIN d[collectionName]
    THEN [d EXCEPT ![collectionName][id].revision = @ + 1]
    ELSE d

delete(d, collectionName, id) ==
    IF collectionName \in DOMAIN d
    THEN [d EXCEPT ![collectionName] = [k \in (DOMAIN @) \ {id} |-> @[k]]]
    ELSE d

\* existingWorkout.userId !== user.id
NotOwner_Skip(workout, userId) == FALSE
NotOwner(workout, userId) == Prop(workout, "userId") # userId

\* What an async method that returns a Promise settles to.
Adopt(promise) == IF promise.state = "rejected" THEN promise.value ELSE "return"

\* How a request ends.  The guards of the four methods on one workout are
\* the same.  getWorkouts and getWorkoutStats call sort and filter on the
\* Promise of find(); createWorkout returns the Promise of insert().
WorkoutOutcome(d, op, user, id, exerciseName) ==
    LET workout == findById(d, "Workouts", id)
        workouts == find(d, "Workouts", user)
    IN  IF user = Null THEN "AuthenticationError"
        ELSE IF op \in {"getWorkouts", "getWorkoutStats"}
        THEN IF IsArray(workouts) THEN "return" ELSE "TypeError"
        ELSE IF op = "createWorkout"
        THEN IF ~validateWorkoutLog(exerciseName) THEN "ValidationError"
             ELSE IF "Workouts" \in DOMAIN d THEN "return" ELSE "TypeError"
        ELSE IF id = Undefined THEN "ValidationError"
        ELSE IF ~Truthy(workout) THEN "NotFoundError"
        ELSE IF NotOwner(workout, user) THEN "AuthorizationError"
        ELSE IF op = "deleteWorkout" THEN "return"
        ELSE Adopt(workout)

\* createWorkout got as far as DatabaseService.insert, which draws the id
\* before it reads this.collections.
createWorkoutInserts(op, user, exerciseName) ==
    op = "createWorkout" /\ user # Null /\ validateWorkoutLog(exerciseName)

\* The store after a request: update and delete are reached only past the
\* guards, and insert() on 'Workouts' rejects without writing.
WorkoutStore(d, op, user, id, exerciseName) ==
    IF WorkoutOutcome(d, op, user, id, exerciseName) \in
          {"AuthenticationError", "ValidationError", "NotFoundError",
           "AuthorizationError", "TypeError"}
    THEN d
    ELSE IF op \in {"updateWorkout", "addFeedback"} THEN update(d, "Workouts", id)
    ELSE IF op = "deleteWorkout" THEN delete(d, "Workouts", id)
    ELSE d

\* The promises a request made and neither awaited nor returned.
WorkoutPromises(d, op, user, id) ==
    IF user = Null \/ op = "createWorkout" THEN {}
    ELSE IF op \in {"getWorkouts", "getWorkoutStats"} THEN {find(d, "Workouts", user)}
    ELSE IF id = Undefined THEN {}
    ELSE {findById(d, "Workouts", id)}

InitWorkout ==
    /\ db = [c \in Collections |->
                IF c = "workouts" THEN [id \in DOMAIN WorkoutOwner |-> Workout(id, WorkoutOwner[id])]
                ELSE << >>]
    /\ idCounter = 0
    /\ calls = << >>
    /\ process = "running"
    /\ args = [fn |-> "workout"]
    /\ retval = [stage |-> "serving", log |-> << >>]

\* A method of WorkoutController, from its call to its return or throw: none
\* of them awaits.
WorkoutRequest(op, user, id, exerciseName) ==
    /\ process # "exited"
    /\ retval.stage = "serving"
    /\ Len(retval.log) < MaxRequests
    /\ retval' = [retval EXCEPT !.log =
          Append(@, [op |-> op, user |-> user, id |-> id,
                     outcome |-> WorkoutOutcome(db, op, user, id, exerciseName)])]
    /\ db' = WorkoutStore(db, op, user, id, exerciseName)
    /\ idCounter' = IF createWorkoutInserts(op, user, exerciseName)
                    THEN generateId(idCounter) ELSE idCounter
    /\ process' = Unhandled(WorkoutPromises(db, op, user, id))
    /\ UNCHANGED <<calls, args>>

NextWorkout ==
    \/ \E op \in WorkoutOps, user \in WorkoutUsers, id \in WorkoutIds :
          WorkoutRequest(op, user, id, Undefined)
    \/ \E op \in WorkoutListOps, user \in WorkoutUsers, exerciseName \in ExerciseNames :
          WorkoutRequest(op, user, Undefined, exerciseName)
    \/ ProcessExits
    \/ RejectionOnlyLogged

SpecWorkout == InitWorkout /\ [][NextWorkout]_vars

\* ----------------------------------------------------------------------
\* UserController: register and updateUser
\* ----------------------------------------------------------------------

\* The users of the store with their emails, and what a request may carry.
StoredEmail == [id \in {"u1", "u2"} |-> IF id = "u1" THEN "ana@somos.com" ELSE "luz@somos.com"]
RequestEmails == {"ana@somos.com", "Ana@Somos.com", "Ana@Somos.com ", "eva@somos.com"}
UpdatedUserIds == {"u1", "u2", "u3"}

\* req.params.id (Undefined: none) and req.user.id (Null: no req.user) of the
\* other methods, req.body.email of login, req.body.age of completeOnboarding.
ParamIds == {"u1", "u3", Undefined}
ProfileUsers == {"u1", Null}
LoginEmails == {Undefined, "ana@somos.com"}
OnboardingAges == {30, 5}

\* /^[^\s@]+@[^\s@]+\.[^\s@]+$/.test(email): no white space anywhere.
isValidEmail(email) == email # "Ana@Somos.com "

\* data.email.toLowerCase().trim()
NormalizeEmail(email) ==
    IF email \in {"Ana@Somos.com", "Ana@Somos.com "} THEN "ana@somos.com" ELSE email

\* existingUser.length > 0 : a Promise has no length, and undefined > 0 is
\* false.
LengthPositive(v) == IsArray(v) /\ Len(v.items) > 0

\* A stored user has the email.
EmailTaken(d, email) ==
    \E id \in DOMAIN d["users"] : d["users"][id].email = NormalizeEmail(email)

\* How register ends.  The body is validated first; find() is not awaited;
\* jwt.sign of generateToken throws when process.env.JWT_SECRET is not set.
registerOutcome(d, email, secretSet) ==
    IF ~isValidEmail(email) THEN "ValidationError"
    ELSE IF LengthPositive(find(d, "Users", email)) THEN "ConflictError"
    ELSE IF ~secretSet THEN "Error"
    ELSE "return"

\* register got as far as DatabaseService.insert.
registerInserts(d, email) ==
    isValidEmail(email) /\ ~LengthPositive(find(d, "Users", email))

\* The store after register: insert() is called on 'Users', which is no key
\* of this.collections, and rejects without writing.
registerStore(d, id, email) ==
    IF ~registerInserts(d, email) THEN d
    ELSE IF "Users" \in DOMAIN d
    THEN insert(d, "Users", [id |-> id, email |-> NormalizeEmail(email)])
    ELSE d

\* How updateUser ends: the guard on the Promise of findById, then the
\* validation of the email.
updateUserOutcome(d, id, email) ==
    IF id = Undefined THEN "ValidationError"
    ELSE IF ~Truthy(findById(d, "Users", id)) THEN "NotFoundError"
    ELSE IF ~isValidEmail(email) THEN "ValidationError"
    ELSE "return"

\* The promises register and updateUser made and did not await: of find()
\* and findById(); those of insert() and update(), made after them, settle
\* in the same way.
registerPromises(d, email) ==
    IF ~isValidEmail(email) THEN {} ELSE {find(d, "Users", email)}

updateUserPromises(d, id, email) ==
    IF id = Undefined THEN {} ELSE {findById(d, "Users", id)}

\* The store after updateUser: the email is written with no look at the
\* other users; update() on 'Users' rejects without writing.
updateUserStore(d, id, email) ==
    IF updateUserOutcome(d, id, email) # "return" THEN d
    ELSE IF "Users" \in DOMAIN d /\ id \in DOMAIN d["Users"]
    THEN [d EXCEPT !["Users"][id].email = NormalizeEmail(email)]
    ELSE d

InitUsers ==
    /\ db = [c \in Collections |->
                IF c = "users"
                THEN [id \in DOMAIN StoredEmail |-> [id |-> id, email |-> StoredEmail[id]]]
                ELSE << >>]
    /\ idCounter = 0
    /\ calls = << >>
    /\ process = "running"
    /\ args = [fn |-> "users"]
    /\ retval = [stage |-> "serving", log |-> << >>]

\* A request is taken while the process runs.
Serving ==
    /\ process # "exited"
    /\ retval.stage = "serving"
    /\ Len(retval.log) < MaxRequests

\* The log with the request and how it ended.
Served(op, id, email, outcome) ==
    [retval EXCEPT !.log = Append(@, [op |-> op, id |-> id, email |-> email,
                                      taken |-> EmailTaken(db, email),
                                      outcome |-> outcome])]

\* UserController.register, from its call to its return or throw.
register(email, secretSet) ==
    /\ Serving
    /\ retval' = [retval EXCEPT !.log =
          Append(@, [op |-> "register", id |-> "-", email |-> email,
                     taken |-> EmailTaken(db, email),
                     outcome |-> registerOutcome(db, email, secretSet)])]
    /\ db' = registerStore(db, generateId(idCounter), email)
    /\ idCounter' = IF registerInserts(db, email) THEN generateId(idCounter)
                    ELSE idCounter
    /\ process' = Unhandled(registerPromises(db, email))
    /\ UNCHANGED <<calls, args>>

\* UserController.updateUser, from its call to its return or throw.
updateUser(id, email) ==
    /\ Serving
    /\ retval' = [retval EXCEPT !.log =
          Append(@, [op |-> "updateUser", id |-> id, email |-> email,
                     taken |-> EmailTaken(db, email),
                     outcome |-> updateUserOutcome(db, id, email)])]
    /\ db' = updateUserStore(db, id, email)
    /\ process' = Unhandled(updateUserPromises(db, id, email))
    /\ UNCHANGED <<idCounter, calls, args>>

\* UserController.login: find() is not awaited, users[0] is undefined and
\* user.id throws.
login(email) ==
    /\ Serving
    /\ LET users == find(db, "Users", email)
       IN  /\ retval' = Served("login", "-", email,
                  IF email = Undefined THEN "ValidationError"
                  ELSE IF IsArray(users) THEN "return" ELSE "TypeError")
           /\ process' = Unhandled(IF email = Undefined THEN {} ELSE {users})
    /\ UNCHANGED <<db, idCounter, calls, args>>

\* UserController.getProfile: the fields of the Promise of findById are
\* returned.
getProfile(user) ==
    /\ Serving
    /\ retval' = Served("getProfile", user, "-",
          IF user = Null THEN "AuthenticationError"
          ELSE IF ~Truthy(findById(db, "Users", user)) THEN "NotFoundError"
          ELSE "return")
    /\ process' = Unhandled(IF user = Null THEN {} ELSE {findById(db, "Users", user)})
    /\ UNCHANGED <<db, idCounter, calls, args>>

\* UserController.getUser.
getUser(id) ==
    /\ Serving
    /\ retval' = Served("getUser", id, "-",
          IF id = Undefined THEN "ValidationError"
          ELSE IF ~Truthy(findById(db, "Users", id)) THEN "NotFoundError"
          ELSE "return")
    /\ process' = Unhandled(IF id = Undefined THEN {} ELSE {findById(db, "Users", id)})
    /\ UNCHANGED <<db, idCounter, calls, args>>

\* UserController.completeOnboarding: validateOnboardingData takes an age of
\* 13 to 100; update() on 'Users' rejects without writing.
completeOnboarding(id, age) ==
    /\ Serving
    /\ LET existingUser == findById(db, "Users", id)
           valid == age >= 13 /\ age <= 100
       IN  /\ retval' = Served("completeOnboarding", id, "-",
                  IF id = Undefined THEN "ValidationError"
                  ELSE IF ~Truthy(existingUser) THEN "NotFoundError"
                  ELSE IF ~valid THEN "ValidationError"
                  ELSE "return")
           /\ process' = Unhandled(IF id = Undefined THEN {} ELSE {existingUser})
           /\ db' = IF id # Undefined /\ Truthy(existingUser) /\ valid
                    THEN update(db, "Users", id) ELSE db
    /\ UNCHANGED <<idCounter, calls, args>>

\* UserController.deleteUser: delete() on 'Users' rejects without writing.
deleteUser(id) ==
    /\ Serving
    /\ LET existingUser == findById(db, "Users", id)
       IN  /\ retval' = Served("deleteUser", id, "-",
                  IF id = Undefined THEN "ValidationError"
                  ELSE IF ~Truthy(existingUser) THEN "NotFoundError"
                  ELSE "return")
           /\ process' = Unhandled(IF id = Undefined THEN {} ELSE {existingUser})
           /\ db' = IF id # Undefined /\ Truthy(existingUser)
                    THEN delete(db, "Users", id) ELSE db
    /\ UNCHANGED <<idCounter, calls, args>>

\* UserController.getUserStats: getAll() is not awaited and the Promise has
\* no filter.
getUserStats ==
    /\ Serving
    /\ retval' = Served("getUserStats", "-", "-",
          IF "Users" \in DOMAIN db THEN "return" ELSE "TypeError")
    /\ process' = Unhandled({find(db, "Users", "-")})
    /\ UNCHANGED <<db, idCounter, calls, args>>

NextUsers ==
    \/ \E email \in RequestEmails, secretSet \in BOOLEAN : register(email, secretSet)
    \/ \E id \in UpdatedUserIds \cup {Undefined}, email \in RequestEmails :
          updateUser(id, email)
    \/ \E email \in LoginEmails : login(email)
    \/ \E user \in ProfileUsers : getProfile(user)
    \/ \E id \in ParamIds : getUser(id)
    \/ \E id \in ParamIds, age \in OnboardingAges : completeOnboarding(id, age)
    \/ \E id \in ParamIds : deleteUser(id)
    \/ getUserStats
    \/ ProcessExits
    \/ RejectionOnlyLogged

SpecUsers == InitUsers /\ [][NextUsers]_vars

\* ----------------------------------------------------------------------
\* AuthMiddleware.authenticate, and the Express application that mounts it
\* ----------------------------------------------------------------------

\* A path is the sequence of its segments: '/api/users/health' is
\* <<"api", "users", "health">>.

\* const publicRoutes = [...]
publicRoutes == {<<"api", "auth", "login">>, <<"api", "auth", "register">>, <<"health">>}

\* The static methods of UserController.
UserControllerMethods ==
    {"register", "login", "getProfile", "getUser", "updateUser", "completeOnboarding",
     "deleteUser", "getUserStats"}

\* routes/auth.js: router.post(path, UserController.<handler>), in order.
authRouteHandlers == <<"register", "login", "logout", "refreshToken">>

\* router.post(path, handler): Express takes functions only, and throws for
\* the undefined that a method the class does not have is.
routerPost(handler) == IF handler \in UserControllerMethods THEN "registered" ELSE "Error"

\* module.exports of middleware/auth.js, by its keys.
authModule == [AuthMiddleware |-> "class"]

\* AuthMiddleware.authenticate in app.js, where AuthMiddleware is what
\* require('./middleware/auth') returned: the module object.
mountedMiddleware ==
    IF "authenticate" \in DOMAIN authModule THEN authModule["authenticate"] ELSE Undefined

\* app.use(mount, fn, router): Express takes functions only.
appUse(fn) == IF fn = Undefined THEN "TypeError" ELSE "mounted"

\* The evaluation of app.js: require('./routes/auth') first, the mounts of
\* the middleware after it.
app ==
    IF \E i \in DOMAIN authRouteHandlers : routerPost(authRouteHandlers[i]) = "Error"
    THEN "Error"
    ELSE appUse(mountedMiddleware)

\* The mount points of app.use(mount, AuthMiddleware.authenticate, router).
Mounts ==
    {<<"api", "users">>, <<"api", "workouts">>, <<"api", "progress">>, <<"api", "ai">>,
     <<"api", "nutrition">>}

\* req.originalUrl of the requests Express hands to a middleware mounted so:
\* the paths below a mount point.
AuthUrls ==
    {<<"api", "users", "profile">>, <<"api", "users", "health">>,
     <<"api", "ai", "recommendations">>, <<"api", "workouts">>,
     <<"api", "nutrition", "health">>, <<"api", "progress", "weight">>,
     <<"api", "ai", "analysis">>, <<"api", "users", "api", "auth", "login">>}

\* req.headers.authorization
AuthHeaders == {Undefined, "Basic dTE6cHc=", "Bearer garbage", "Bearer expired",
                "Bearer notyet", "Bearer u1", "Bearer u9"}

\* req.baseUrl: the mount point the request matched.
baseUrl(request) ==
    CHOOSE mount \in Mounts :
        /\ Len(mount) <= Len(request.originalUrl)
        /\ SubSeq(request.originalUrl, 1, Len(mount)) = mount

\* req.path in a mounted middleware: the path with the mount point taken off.
reqPath(request) ==
    SubSeq(request.originalUrl, Len(baseUrl(request)) + 1, Len(request.originalUrl))

\* authHeader.startsWith('Bearer ')
startsWithBearer(authHeader) ==
    authHeader \in {"Bearer garbage", "Bearer expired", "Bearer notyet", "Bearer u1", "Bearer u9"}

\* authHeader.substring(7)
substring7(authHeader) ==
    CASE authHeader = "Bearer garbage" -> "garbage"
      [] authHeader = "Bearer expired" -> "expired"
      [] authHeader = "Bearer notyet" -> "notyet"
      [] authHeader = "Bearer u1" -> "u1"
      [] authHeader = "Bearer u9" -> "u9"
      [] OTHER -> ""

\* jwt.verify(token, secret): the decoded userId, or the name of the error
\* it throws.
jwtVerify(token) ==
    CASE token = "u1" -> [throws |-> "-", userId |-> "u1"]
      [] token = "u9" -> [throws |-> "-", userId |-> "u9"]
      [] token = "expired" -> [throws |-> "TokenExpiredError", userId |-> "-"]
      [] token = "notyet" -> [throws |-> "NotBeforeError", userId |-> "-"]
      [] OTHER -> [throws |-> "JsonWebTokenError", userId |-> "-"]

\* The synchronous part of authenticate(req, res, next), for req.path,
\* req.headers.authorization and next: what it has done when it returns.  It
\* is all in a try: next() with next undefined is a TypeError that the catch
\* answers with 500, and nothing is thrown to the caller.
authenticateSync(path, header, next) ==
    IF path \in publicRoutes
    THEN IF next = Undefined THEN [status |-> 500, next |-> FALSE, lookup |-> "-"]
         ELSE [status |-> 0, next |-> TRUE, lookup |-> "-"]
    ELSE IF header = Undefined \/ ~startsWithBearer(header)
    THEN [status |-> 401, next |-> FALSE, lookup |-> "-"]
    ELSE LET decoded == jwtVerify(substring7(header))
         IN  IF decoded.throws \in {"JsonWebTokenError", "TokenExpiredError"}
             THEN [status |-> 401, next |-> FALSE, lookup |-> "-"]
             ELSE IF decoded.throws # "-"
             THEN [status |-> 500, next |-> FALSE, lookup |-> "-"]
             ELSE [status |-> 0, next |-> FALSE, lookup |-> decoded.userId]

\* The callbacks on the promise of findById: .then(user => ...) and .catch,
\* which also catches what .then throws: next() with next undefined.
authenticateThen(promise, next) ==
    IF promise.state = "rejected" THEN [status |-> 401, next |-> FALSE]
    ELSE IF promise.value = Null THEN [status |-> 401, next |-> FALSE]
    ELSE IF next = Undefined THEN [status |-> 401, next |-> FALSE]
    ELSE [status |-> 0, next |-> TRUE]

\* The middleware is studied as a function of the request Express hands it
\* under the mounts of app.js; req, res and next are its parameters.  app.js
\* itself cannot be evaluated (LoadApp), so that in the repository no
\* request reaches the middleware.
InitAuth ==
    /\ db = [c \in Collections |->
                IF c = "users" THEN ("u1" :> [id |-> "u1", email |-> "ana@somos.com"])
                ELSE << >>]
    /\ idCounter = 0
    /\ calls = << >>
    /\ process = "running"
    /\ \E originalUrl \in AuthUrls, header \in AuthHeaders :
          args = [originalUrl |-> originalUrl, header |-> header]
    /\ retval = [stage |-> "received", status |-> 0, next |-> FALSE, lookup |-> "-",
                 app |-> "-"]

\* app.js is evaluated: require('./routes/auth') throws at the handler that
\* UserController does not have, before any listener of the process is
\* installed, and the process ends without listening.
LoadApp ==
    /\ process = "running"
    /\ retval.stage = "received"
    /\ retval' = [retval EXCEPT !.stage = "app", !.app = app]
    /\ process' = IF app \in {"Error", "TypeError"} THEN "exited" ELSE process
    /\ UNCHANGED <<db, idCounter, calls, args>>

\* AuthMiddleware.authenticate(req, res, next) up to its return.
Authenticate ==
    /\ process = "running"
    /\ retval.stage = "received"
    /\ LET done == authenticateSync(reqPath(args), args.header, "next")
       IN  retval' = [stage |-> IF done.lookup = "-" THEN "done" ELSE "lookup",
                      status |-> done.status, next |-> done.next, lookup |-> done.lookup,
                      app |-> retval.app]
    /\ UNCHANGED <<process, db, idCounter, calls, args>>

\* The promise of DatabaseService.findById('users', decoded.userId) settles;
\* the store may fail to answer.
UserLookupSettles(storeAnswers) ==
    /\ retval.stage = "lookup"
    /\ LET promise == IF storeAnswers THEN findById(db, "users", retval.lookup)
                      ELSE Promise("rejected", "Error")
           done == authenticateThen(promise, "next")
       IN  retval' = [retval EXCEPT !.stage = "done", !.status = done.status,
                                    !.next = done.next]
    /\ UNCHANGED <<process, db, idCounter, calls, args>>

NextAuth ==
    \/ LoadApp
    \/ Authenticate
    \/ \E storeAnswers \in BOOLEAN : UserLookupSettles(storeAnswers)

SpecAuth == InitAuth /\ [][NextAuth]_vars

\* ----------------------------------------------------------------------
\* Router of the Apps Script entry point
\* ----------------------------------------------------------------------

MaxMiddleware == 2

\* An Error object: its name and its message, the message as the pieces it
\* was put together from.
Err(name, message) == [name |-> name, message |-> message]
NoError == Err("-", << >>)

\* error.message.includes(piece)
includes(message, piece) == \E i \in DOMAIN message : message[i] = piece

\* The keys of this.routes.
RouterMethods == {"GET", "POST", "PUT", "DELETE"}

\* new Router()
NewRouter == [middleware |-> << >>, GET |-> << >>, POST |-> << >>,
              PUT |-> << >>, DELETE |-> << >>]

\* path.split('/').filter(Boolean)
splitPath(path) ==
    CASE path = "/" -> << >>
      [] path = "/health" -> <<"health">>
      [] path = "/users/7" -> <<"users", "7">>
      [] path = "/users/7/" -> <<"users", "7">>
      [] path = "/users/health" -> <<"users", "health">>
      [] path = "/users/:id" -> <<"users", ":id">>
      [] path = "/workouts" -> <<"workouts">>
      [] path = "/workouts/:id" -> <<"workouts", ":id">>
      [] path = "/workouts/7" -> <<"workouts", "7">>
      [] path = "/auth/profile" -> <<"auth", "profile">>
      [] path = "/auth/login" -> <<"auth", "login">>
      [] path = "/auth/register" -> <<"auth", "register">>
      [] path = "/users/:id/onboarding" -> <<"users", ":id", "onboarding">>
      [] path = "/workouts/:id/feedback" -> <<"workouts", ":id", "feedback">>
      [] path = "/progress" -> <<"progress">>
      [] path = "/progress/weight" -> <<"progress", "weight">>
      [] path = "/progress/measurements" -> <<"progress", "measurements">>
      [] path = "/progress/analytics" -> <<"progress", "analytics">>
      [] path = "/ai/recommendations" -> <<"ai", "recommendations">>
      [] path = "/ai/workout-plan" -> <<"ai", "workout-plan">>
      [] path = "/ai/nutrition-advice" -> <<"ai", "nutrition-advice">>
      [] path = "/nutrition/goals" -> <<"nutrition", "goals">>
      [] path = "/nutrition/log" -> <<"nutrition", "log">>
      [] path = "/nutrition/history" -> <<"nutrition", "history">>
      [] OTHER -> <<"nope">>

\* patternParts[i].startsWith(':')
startsWithColon(part) == part = ":id"

matchRoute(path, pattern) ==
    LET pathParts == splitPath(path)
        patternParts == splitPath(pattern)
    IN  /\ Len(pathParts) = Len(patternParts)
        /\ \A i \in DOMAIN patternParts :
              startsWithColon(patternParts[i]) \/ pathParts[i] = patternParts[i]

\* The handler found for a path among the routes of a method, in the order
\* of the Map: the exact path first, then the first pattern that matches.
\* A handler is named by the path it was registered under.
findHandler(path, routes) ==
    IF \E i \in DOMAIN routes : routes[i] = path THEN path
    ELSE IF \E i \in DOMAIN routes : matchRoute(path, routes[i])
    THEN routes[CHOOSE i \in DOMAIN routes :
                   /\ matchRoute(path, routes[i])
                   /\ \A j \in 1..(i - 1) : ~matchRoute(path, routes[j])]
    ELSE Null

\* JSON.parse(e.postData.contents) of createRequest throws on this body.
InvalidJSON(postData) == postData = "{bad"

\* executeMiddleware: the middleware that ran, and the error thrown if one
\* of them threw.  outcomes[i] is the error the i-th middleware throws, or
\* NoError if it returns.
RECURSIVE executeMiddlewareFrom(_, _, _, _)
executeMiddlewareFrom(middleware, outcomes, i, ran) ==
    IF i > Len(middleware) THEN [ran |-> ran, thrown |-> NoError]
    ELSE IF outcomes[i] # NoError
    THEN [ran |-> Append(ran, middleware[i]),
          thrown |-> Err("Error", <<"Error en middleware: ">> \o outcomes[i].message)]
    ELSE executeMiddlewareFrom(middleware, outcomes, i + 1, Append(ran, middleware[i]))

executeMiddleware_KeepGoing(middleware, outcomes) ==
    [ran |-> middleware, thrown |-> NoError]
executeMiddleware(middleware, outcomes) ==
    executeMiddlewareFrom(middleware, outcomes, 1, << >>)

\* The route handlers of setupRoutes are async methods of the controllers,
\* except the arrow function of the health check.
IsAsync(handler) == handler # "/health"

\* Router.handle.  ran lists what was run, in order; thrown is the error the
\* call throws (NoError if it returns); value is what it returns.  An async
\* handler that fails returns a rejected Promise: nothing is thrown.
handle(router, e, method, outcomes, handlerOutcome) ==
    LET path == IF e.path \in {Undefined, ""} THEN "/" ELSE e.path
        handler == findHandler(path, router[method])
        done == executeMiddleware(router.middleware, outcomes)
    IN  IF method \notin RouterMethods
        THEN [ran |-> << >>, value |-> "-",
              thrown |-> Err("Error", <<"Método HTTP no soportado", ": ", method>>)]
        ELSE IF handler = Null
        THEN [ran |-> << >>, value |-> "-",
              thrown |-> Err("Error", <<"Ruta no encontrada", ": ", method, " ", path>>)]
        ELSE IF e.postData # Undefined /\ InvalidJSON(e.postData)
        THEN [ran |-> << >>, value |-> "-",
              thrown |-> Err("SyntaxError", <<"Unexpected token">>)]
        ELSE IF done.thrown # NoError
        THEN [ran |-> done.ran, value |-> "-", thrown |-> done.thrown]
        ELSE IF handlerOutcome = NoError
        THEN [ran |-> Append(done.ran, handler), thrown |-> NoError,
              value |-> IF IsAsync(handler) THEN "Promise:fulfilled" ELSE "data"]
        ELSE IF IsAsync(handler)
        THEN [ran |-> Append(done.ran, handler), thrown |-> NoError,
              value |-> "Promise:rejected"]
        ELSE [ran |-> Append(done.ran, handler), value |-> "-", thrown |-> handlerOutcome]

\* What a request to the router carries, and what the registered functions
\* may do with it.
RouterPaths == {Undefined, "/users/7", "/users/health", "/workouts/7"}
PostDatas == {Undefined, "{}", "{bad"}
Middlewares == {"authenticate", "validateRequest"}
GetPatterns == {"/users/:id", "/users/health"}
PostPatterns == {"/users/:id"}
PutPatterns == {"/users/:id"}
DeletePatterns == {"/workouts/:id"}
HandledMethods == {"GET", "POST", "PUT", "DELETE", "PATCH"}
Thrown == {Err("ValidationError", <<"Parámetros inválidos">>)}
Outcomes == Thrown \cup {NoError}

NoRequestHandled ==
    [method |-> "-", e |-> [path |-> Undefined, postData |-> Undefined],
     outcomes |-> << >>, handlerOutcome |-> NoError,
     ran |-> << >>, value |-> "-", thrown |-> NoError]

InitRouter ==
    /\ db = [c \in Collections |-> << >>]
    /\ idCounter = 0
    /\ calls = << >>
    /\ process = "running"
    /\ args = [fn |-> "router"]
    /\ retval = [stage |-> "new", router |-> NewRouter, last |-> NoRequestHandled]

\* Map.set: a path already registered keeps its place.
routeSet(routes, path) ==
    IF \E i \in DOMAIN routes : routes[i] = path THEN routes ELSE Append(routes, path)

\* Router.use
use(middleware) ==
    /\ retval.stage = "new"
    /\ Len(retval.router.middleware) < MaxMiddleware
    /\ retval' = [retval EXCEPT !.router.middleware = Append(@, middleware)]
    /\ UNCHANGED <<process, db, idCounter, calls, args>>

\* Router.get
get(path) ==
    /\ retval.stage = "new"
    /\ retval' = [retval EXCEPT !.router.GET = routeSet(@, path)]
    /\ retval' # retval
    /\ UNCHANGED <<process, db, idCounter, calls, args>>

\* Router.post
post(path) ==
    /\ retval.stage = "new"
    /\ retval' = [retval EXCEPT !.router.POST = routeSet(@, path)]
    /\ retval' # retval
    /\ UNCHANGED <<process, db, idCounter, calls, args>>

\* Router.put
put(path) ==
    /\ retval.stage = "new"
    /\ retval' = [retval EXCEPT !.router.PUT = routeSet(@, path)]
    /\ retval' # retval
    /\ UNCHANGED <<process, db, idCounter, calls, args>>

\* Router.delete
Router_delete(path) ==
    /\ retval.stage = "new"
    /\ retval' = [retval EXCEPT !.router.DELETE = routeSet(@, path)]
    /\ retval' # retval
    /\ UNCHANGED <<process, db, idCounter, calls, args>>

\* Router.handle, from its call to its return or throw.
Handle(method, e, outcomes, handlerOutcome) ==
    /\ retval.stage = "new"
    /\ LET r == handle(retval.router, e, method, outcomes, handlerOutcome)
       IN  retval' = [retval EXCEPT !.stage = "handled",
                 !.last = [method |-> method, e |-> e, outcomes |-> outcomes,
                           handlerOutcome |-> handlerOutcome,
                           ran |-> r.ran, value |-> r.value, thrown |-> r.thrown]]
    /\ UNCHANGED <<process, db, idCounter, calls, args>>

NextRouter ==
    \/ \E middleware \in Middlewares : use(middleware)
    \/ \E path \in GetPatterns : get(path)
    \/ \E path \in PostPatterns : post(path)
    \/ \E path \in PutPatterns : put(path)
    \/ \E path \in DeletePatterns : Router_delete(path)
    \/ \E method \in HandledMethods, path \in RouterPaths, postData \in PostDatas,
          outcomes \in [1..Len(retval.router.middleware) -> Outcomes],
          handlerOutcome \in Outcomes :
          Handle(method, [path |-> path, postData |-> postData], outcomes, handlerOutcome)

SpecRouter == InitRouter /\ [][NextRouter]_vars

\* ----------------------------------------------------------------------
\* doGet and doPost
\* ----------------------------------------------------------------------

\* The router after setupRoutes(new Router()).
setupRoutes ==
    [middleware |-> <<"authenticate", "validateRequest">>,
     GET |-> <<"/auth/profile", "/users/:id", "/workouts", "/workouts/:id",
               "/progress", "/progress/analytics", "/nutrition/goals",
               "/nutrition/history", "/health">>,
     POST |-> <<"/auth/login", "/auth/register", "/users/:id/onboarding",
                "/workouts", "/workouts/:id/feedback", "/progress/weight",
                "/progress/measurements", "/ai/recommendations", "/ai/workout-plan",
                "/ai/nutrition-advice", "/nutrition/log">>,
     PUT |-> <<"/users/:id", "/workouts/:id">>,
     DELETE |-> <<"/workouts/:id">>]

\* ErrorHandler.handle: the code of the error response.
ErrorHandler_handle_NoRoute(error) ==
    CASE error.name = "ValidationError" -> 400
      [] error.name = "AuthenticationError" -> 401
      [] error.name = "AuthorizationError" -> 403
      [] error.name = "NotFoundError" -> 404
      [] error.name = "ConflictError" -> 409
      [] OTHER -> 500
ErrorHandler_handle(error) ==
    CASE error.name = "ValidationError" -> 400
      [] error.name = "AuthenticationError" -> 401
      [] error.name = "AuthorizationError" -> 403
      [] error.name = "NotFoundError" -> 404
      [] error.name = "ConflictError" -> 409
      [] OTHER -> IF includes(error.message, "Ruta no encontrada") THEN 404
                  ELSE IF includes(error.message, "Método HTTP no soportado") THEN 405
                  ELSE 500

\* AuthMiddleware.authenticate as executeMiddleware calls it,
\* middleware(req, res): next is undefined and req.headers is e.parameter.
\* What it leaves in res.status when it returns, and the user it looks up;
\* it throws nothing, and the callbacks of its promise run after the
\* request was answered.
entryAuthenticate(e) ==
    authenticateSync(splitPath(IF e.path \in {Undefined, ""} THEN "/" ELSE e.path),
                     e.authorization, Undefined)

\* Router.handle gets as far as createResponse and executeMiddleware: the
\* method has routes, one of them is for the path, and createRequest could
\* parse the body.
reachesMiddleware(router, e, method) ==
    /\ method \in RouterMethods
    /\ findHandler(IF e.path \in {Undefined, ""} THEN "/" ELSE e.path, router[method]) # Null
    /\ ~(e.postData # Undefined /\ InvalidJSON(e.postData))

\* ValidationMiddleware.validateRequest as executeMiddleware calls it.
\* router.use was given the method without its class and a class body is
\* strict code: this is undefined, so that this.validateJSONBody of a POST
\* and this.validateURLParams of any request are a TypeError, which the
\* catch of validateRequest logs and throws again.
validateRequest(e) == Err("TypeError", <<"Cannot read properties of undefined">>)

\* What the two global middleware of setupRoutes throw, in order.
entryOutcomes(e) == <<NoError, validateRequest(e)>>

\* The body of doGet and doPost: createResponse(router.handle(e, method)), or
\* ErrorHandler.handle(error) for what handle throws.  code 0 stands for a
\* response without an error code.  No route handler is reached, as the
\* second middleware throws for every request.
answer(e, method) ==
    LET r == handle(setupRoutes, e, method, entryOutcomes(e), NoError)
    IN  IF r.thrown = NoError
        THEN [success |-> TRUE, code |-> 0, data |-> r.value, ran |-> r.ran]
        ELSE [success |-> FALSE, code |-> ErrorHandler_handle(r.thrown),
              data |-> "-", ran |-> r.ran]

\* The requests of the entry points: e.parameter.path, e.postData.contents
\* and e.parameter.authorization.
EntryPaths == {Undefined, "/health", "/users/7", "/workouts", "/auth/login", "/nope"}

InitEntry ==
    /\ db = [c \in Collections |->
                IF c = "users" THEN ("u1" :> [id |-> "u1", email |-> "ana@somos.com"])
                ELSE << >>]
    /\ idCounter = 0
    /\ calls = << >>
    /\ process = "running"
    /\ args = [fn |-> "entry"]
    /\ retval = [stage |-> "waiting"]

\* One call of an entry point, up to its answer.  res is the status of the
\* response object of the router (Undefined: handle threw before it made
\* one), lookup the user whose findById authenticate has started.
EntryPoint(method, e) ==
    /\ retval.stage = "waiting"
    /\ LET reached == reachesMiddleware(setupRoutes, e, method)
       IN  retval' = [stage |-> "answered", method |-> method, e |-> e,
                      outcomes |-> entryOutcomes(e), handlerOutcome |-> NoError,
                      res |-> IF reached THEN entryAuthenticate(e).status ELSE Undefined,
                      lookup |-> IF reached THEN entryAuthenticate(e).lookup ELSE "-",
                      answer |-> answer(e, method)]
    /\ UNCHANGED <<process, db, idCounter, calls, args>>

\* The promise of the findById of authenticate settles, after the request
\* was answered: its callbacks set the status of the response object that
\* nobody reads any more.  The store may fail to answer.
EntryLookupSettles(storeAnswers) ==
    /\ retval.stage = "answered"
    /\ retval.lookup # "-"
    /\ LET promise == IF storeAnswers THEN findById(db, "users", retval.lookup)
                      ELSE Promise("rejected", "Error")
       IN  retval' = [retval EXCEPT !.lookup = "-",
                                    !.res = authenticateThen(promise, Undefined).status]
    /\ UNCHANGED <<process, db, idCounter, calls, args>>

doGet(e) == EntryPoint("GET", e)

doPost(e) == EntryPoint("POST", e)

NextEntry ==
    \/ \E path \in EntryPaths, postData \in PostDatas, authorization \in AuthHeaders :
          doGet([path |-> path, postData |-> postData, authorization |-> authorization])
    \/ \E path \in EntryPaths, postData \in PostDatas, authorization \in AuthHeaders :
          doPost([path |-> path, postData |-> postData, authorization |-> authorization])
    \/ \E storeAnswers \in BOOLEAN : EntryLookupSettles(storeAnswers)

SpecEntry == InitEntry /\ [][NextEntry]_vars

\* ----------------------------------------------------------------------
\* Properties
\* ----------------------------------------------------------------------

Count(event, trace) == Cardinality({i \in DOMAIN trace : trace[i] = event})

Before(a, b, trace) ==
    \A i, j \in DOMAIN trace : (trace[i] = a /\ trace[j] = b) => i < j

\* The call has been invoked.
Invoked(c) == c.pc # "idle"

\* The call got past the controller's checks, into an AIService method.
InService(c) == c.template # "-"

\* callAIAPI has resolved for the call.
GatewayResolved(c) == InService(c) /\ c.pc \in {"insert", "done"}

\* C1: an advisory request whose userId has no profile ends with NotFound,
\* and neither the endpoint nor the suggestion insert is called during it.
C1_UnknownUserFailsNotFound ==
    \A r \in CallIds :
        LET c == calls[r]
        IN  (Invoked(c) /\ c.user # Null /\ c.user \notin ProfileIds)
            => /\ c.pc = "done"
               /\ c.outcome = Throw("NotFoundError")
               /\ Count("fetch", c.trace) = 0
               /\ Count("insert", c.trace) = 0

\* C2: whenever the endpoint call fails (network error, timeout, non-2xx,
\* unreadable body, malformed or empty candidate list), callAIAPI resolves
\* with a canned fallback text and the caller carries on to the insert; the
\* failure is not thrown to the caller.
C2_GatewayFailureBecomesFallback ==
    \A r \in CallIds :
        LET c == calls[r]
        IN  (GatewayResolved(c) /\ c.reply \in FailureReplies)
            => /\ c.response \in Fallbacks
               /\ Count("fallback", c.trace) = 1
               /\ Count("insert", c.trace) = 1
               /\ c.outcome # Throw("Error")

C2_Witness ==
    \E r \in CallIds :
        /\ calls[r].pc = "done" /\ calls[r].reply.name = "empty_candidates"
        /\ calls[r].type = "nutrition"
        /\ calls[r].outcome.kind = "return"
        /\ calls[r].outcome.text = GenericFallback

\* Two calls were given the same request and the same endpoint reply.
SameInputs(c, d) ==
    /\ c.entry = d.entry /\ c.user = d.user /\ c.type = d.type
    /\ c.context = d.context /\ c.reply = d.reply

\* C3: a call whose suggestion insert failed ends exactly as a call with the
\* same request and the same endpoint reply whose insert succeeded, and the
\* insert failure is not thrown to the caller.
C3_InsertFailureInvisible ==
    \A r, q \in CallIds :
        LET c == calls[r]
            d == calls[q]
        IN  (c.pc = "done" /\ c.saved = "failed")
            => /\ c.outcome # Throw("Error")
               /\ (d.pc = "done" /\ d.saved = "ok" /\ SameInputs(c, d))
                    => c.outcome = d.outcome

C3_Witness ==
    /\ calls[1].pc = "done" /\ calls[1].saved = "failed"
    /\ calls[2].pc = "done" /\ calls[2].saved = "ok"
    /\ SameInputs(calls[1], calls[2])
    /\ calls[1].reply.name = "ok"
    /\ calls[1].outcome.kind = "return"
    /\ calls[1].outcome.text = "Plan de la IA"
    /\ Cardinality(DOMAIN db["aiSuggestions"]) = 2

\* The intent was sent to the controller method that serves it: the progress
\* analysis to analyzeProgress, the other three to getRecommendations.
Routed(c) ==
    \/ c.entry = "analyzeProgress"
    \/ c.entry = "getRecommendations" /\ c.type \in {"workout", "nutrition", "motivation"}

\* C4: an advisory call of an existing user with one of the four intents
\* returns a recommendation, and a call that fails fails with NotFound or
\* InvalidIntent.
C4_ExistingUserAlwaysAdvised ==
    \A r \in CallIds :
        LET c == calls[r]
        IN  c.pc = "done"
            => /\ (c.user \in ProfileIds /\ Routed(c))
                    => c.outcome.kind = "return"
               /\ (c.user # Null /\ c.outcome.kind = "throw")
                    => c.outcome.error \in {"NotFoundError", "ValidationError"}

\* C5: for an intent outside the four, getRecommendations of an existing
\* user ends with a validation error, and neither the endpoint nor the
\* suggestion insert is called during it.
C5_InvalidIntentRejected ==
    \A r \in CallIds :
        LET c == calls[r]
        IN  (c.entry = "getRecommendations" /\ c.user \in ProfileIds
                /\ c.type \notin Intents)
            => /\ c.pc = "done"
               /\ c.outcome = Throw("ValidationError")
               /\ Count("fetch", c.trace) = 0
               /\ Count("insert", c.trace) = 0

C5_Witness ==
    \E r \in CallIds :
        /\ calls[r].entry = "getRecommendations" /\ calls[r].user = "u1"
        /\ calls[r].type = "yoga" /\ calls[r].pc = "done"
        /\ calls[r].outcome.error = "ValidationError"

\* C6: a call that is past the controller's checks has made exactly one
\* outbound call, however the endpoint answered; after a failed attempt the
\* next step is the fallback selection.
C6_OneOutboundCall ==
    \A r \in CallIds :
        LET c == calls[r]
        IN  /\ Count("fetch", c.trace) <= 1
            /\ InService(c) => Count("fetch", c.trace) = 1
            /\ (GatewayResolved(c) /\ c.reply \in FailureReplies)
                 => \E i \in DOMAIN c.trace :
                       /\ c.trace[i] = "fetch"
                       /\ i + 1 \in DOMAIN c.trace
                       /\ c.trace[i + 1] = "fallback"

C6_Witness ==
    \E r \in CallIds :
        /\ calls[r].pc = "done" /\ calls[r].reply.name = "http_500"
        /\ calls[r].outcome.kind = "return"
        /\ Count("fetch", calls[r].trace) = 1

\* C7: a call whose gateway step has resolved has attempted exactly one
\* suggestion insert, after the gateway step and before the result, and the
\* record carries the userId, the prompt and the response of that call.
C7_OneAuditRecordPerCall ==
    \A r \in CallIds :
        LET c == calls[r]
        IN  GatewayResolved(c)
            => /\ Count("insert", c.trace) = 1
               /\ Before("fetch", "insert", c.trace)
               /\ Before("insert", "return", c.trace)
               /\ Before("insert", "throw", c.trace)
               /\ c.doc.userId = c.user
               /\ c.doc.prompt = c.prompt
               /\ c.doc.response = c.response

\* C8: a step of the advisory flow leaves every existing suggestion record
\* as it is, and leaves the other collections (profiles, logs) unchanged.
C8_SuggestionsAppendOnly ==
    [][ /\ \A id \in DOMAIN db["aiSuggestions"] :
              /\ id \in DOMAIN db'["aiSuggestions"]
              /\ db'["aiSuggestions"][id] = db["aiSuggestions"][id]
        /\ \A name \in Collections \ {"aiSuggestions"} : db'[name] = db[name]
      ]_vars

C8_Witness ==
    /\ Cardinality(DOMAIN db["aiSuggestions"]) = 3
    /\ db["aiSuggestions"][1] = EarlierSuggestion
    /\ calls[1].pc = "done" /\ calls[1].saved = "ok"
    /\ calls[2].pc = "done" /\ calls[2].saved = "ok"

\* The text the call's own endpoint reply determines: the candidate text, or
\* one of the canned fallbacks.
OwnText(c, text) ==
    IF c.reply \in FailureReplies THEN text \in Fallbacks ELSE text = c.reply.text

\* C9: under every interleaving, the calls insert under pairwise distinct
\* new ids, a record once written stays the record of the call that wrote
\* it, and a call returns the text of its own endpoint reply for its own
\* intent.
C9_CallsDoNotInterfere ==
    /\ db["aiSuggestions"][1] = EarlierSuggestion
    /\ \A r, q \in CallIds :
          (r # q /\ GatewayResolved(calls[r]) /\ GatewayResolved(calls[q]))
          => calls[r].doc.id # calls[q].doc.id
    /\ \A r \in CallIds :
          LET c == calls[r]
          IN  /\ GatewayResolved(c) => c.doc.id \notin {0, 1}
              /\ c.saved = "ok"
                   => /\ c.doc.id \in DOMAIN db["aiSuggestions"]
                      /\ db["aiSuggestions"][c.doc.id].prompt = c.prompt
                      /\ db["aiSuggestions"][c.doc.id].response = c.response
              /\ (c.pc = "done" /\ c.outcome.kind = "return")
                   => /\ c.outcome.type = c.type
                      /\ OwnText(c, c.outcome.text)

\* The second call overtook the first at both suspension points.
C9_Witness ==
    /\ calls[1].pc = "done" /\ calls[1].saved = "ok"
    /\ calls[2].pc = "done" /\ calls[2].saved = "ok"
    /\ calls[1].user = "u1" /\ calls[2].user = "u2"
    /\ calls[1].type = "workout" /\ calls[2].type = "motivation"
    /\ calls[1].reply.name = "ok" /\ calls[2].reply.name = "http_500"
    /\ calls[2].doc.id < calls[1].doc.id
    /\ calls[1].outcome.text = "Plan de la IA"
    /\ calls[2].outcome.text = WorkoutFallback

\* C10: callAIAPI resolves with a non-empty text for every endpoint reply.
C10_GatewayTextNonEmpty ==
    \A r \in CallIds :
        GatewayResolved(calls[r])
        => /\ calls[r].response # Undefined
           /\ calls[r].response # ""

\* The fallback has been selected for a prompt.
FallbackSelected == retval.stage = "fallback"

\* C11: when the endpoint call fails, the fallback is selected by scanning
\* the prompt text: a prompt containing "workout" or "entrenamiento" gets the
\* canned workout plan; otherwise a prompt containing "nutrition" or
\* "nutrición" gets the canned nutrition advice; every other prompt gets the
\* generic encouragement.
C11_FallbackByKeywordScan ==
    FallbackSelected =>
        retval.fallback =
            IF Includes(retval.prompt, "workout") \/ Includes(retval.prompt, "entrenamiento")
            THEN WorkoutFallback
            ELSE IF Includes(retval.prompt, "nutrition") \/ Includes(retval.prompt, "nutrición")
            THEN NutritionFallback
            ELSE GenericFallback

\* The fallback a selector keyed by the intent chooses.
IntentFallback(intent) ==
    CASE intent = "workout"   -> WorkoutFallback
      [] intent = "nutrition" -> NutritionFallback
      [] OTHER                -> GenericFallback

\* C12: for every prompt one of the four builders produced, the fallback the
\* keyword scan selects is the one a selector keyed by the intent selects:
\* the workout plan for workout, the nutrition advice for nutrition, and the
\* generic encouragement for progress_analysis and motivation.
C12_ScanAgreesWithIntent ==
    (FallbackSelected /\ retval.intent \in Intents)
        => retval.fallback = IntentFallback(retval.intent)

\* The texts a missing field may be rendered as.
Placeholders == {"No especificada", "No especificado", "not specified"}

\* The slot of the workout template that renders a field of the profile.
WorkoutSlot(field) ==
    CASE field = "goal"            -> 1
      [] field = "experienceLevel" -> 2
      [] field = "equipment"       -> 3
      [] field = "age"             -> 4
      [] field = "currentWeight"   -> 5
      [] field = "height"          -> 6

\* C20: the workout prompt built from a profile whose optional fields (age,
\* weight, height, equipment) are absent or null, and from an empty or
\* absent context, renders a placeholder for each missing field and holds
\* neither the token "undefined" nor the token "null".
C20_WorkoutPromptHasNoMissingToken ==
    ( /\ retval.stage \in {"built", "fallback"}
      /\ retval.intent = "workout"
      /\ Prop(args.userData, "goal") # Undefined
      /\ Prop(args.userData, "experienceLevel") # Undefined
      /\ args.context \in {Undefined, "{}"} )
    => /\ \A i \in DOMAIN retval.prompt.slots :
              retval.prompt.slots[i] \notin {"undefined", "null"}
       /\ \A field \in {"equipment", "age", "currentWeight", "height"} :
              Prop(args.userData, field) \in {Undefined, Null}
                  => retval.prompt.slots[WorkoutSlot(field)] \in Placeholders

\* The user has no weight, workout or nutrition log.
NoLogs == db["progress"] = << >> /\ db["workouts"] = << >> /\ db["nutrition"] = << >>

\* C13: a progress analysis with timeRange "30_days" for an existing user
\* who has no logs returns normally, with the trend "insufficient_data" and
\* a recommendation text that is not empty, whatever the endpoint answered.
C13_NoLogsGiveInsufficientData ==
    \A r \in CallIds :
        LET c == calls[r]
        IN  ( /\ c.entry = "analyzeProgress"
              /\ c.context = "30_days"
              /\ c.user \in ProfileIds
              /\ NoLogs
              /\ c.pc = "done" )
            => /\ c.outcome.kind = "return"
               /\ c.outcome.trend = "insufficient_data"
               /\ c.outcome.text \notin {Undefined, ""}

\* The values of a series, without the logs that have none.
Valued(logs) == Truthies(MapWeight(logs))

\* C14: the trend computation returns "insufficient_data" with slope 0 for
\* every series that has fewer than 2 values once the logs without a value
\* are discarded: the empty series, a singleton, and a longer series in which
\* at most one log has a value.
C14_FewValuesGiveInsufficientData ==
    ( /\ retval.stage \in {"calculateWeightTrend", "calculateTrends"}
      /\ Len(Valued(args.weightLogs)) < 2 )
    => /\ retval.trend = "insufficient_data"
       /\ retval.slope # NoNumber
       /\ retval.slope = Zero

\* C15: the trend computation does not depend on the order of its input: on
\* every series, in whatever order the logs are given, it returns what it
\* returns on the series sorted by ascending timestamp, direction and slope.
C15_TrendIgnoresInputOrder ==
    retval.stage = "calculateWeightTrend"
    => LET sorted == calculateWeightTrend(SortByTimestamp(args.weightLogs))
       IN  /\ retval.trend = sorted.trend
           /\ retval.slope = sorted.slope

\* The logs of the series are dated on consecutive days, each has a value,
\* and from one day to the next the values go up by d.  The series is the
\* logs by day, in whatever order the array has them.
IsDailyProgression(logs, d) ==
    LET series == SortByTimestamp(logs)
    IN  /\ Len(series) >= 2
        /\ \A i \in DOMAIN series : series[i].weight # Zero
        /\ \A i \in 1..(Len(series) - 1) :
              /\ series[i + 1].timestamp = series[i].timestamp + 1
              /\ series[i + 1].weight = Plus(series[i].weight, FromInt(d))

\* The positive integer steps of the progressions among the series.
Steps == 1..2

\* C16: for a series of n >= 2 values on consecutive days that go up by a
\* positive integer d from one day to the next, the least-squares slope over
\* the indices 0 .. n-1 is d, and the trend is "increasing".
C16_ArithmeticSeriesHasSlopeD ==
    \A d \in Steps :
        (retval.stage = "calculateWeightTrend" /\ IsDailyProgression(args.weightLogs, d))
        => /\ retval.trend = "increasing"
           /\ retval.slope = FromInt(d)

\* The series has n >= 2 logs, all with the same value.
IsConstant(logs) ==
    /\ Len(logs) >= 2
    /\ logs[1].weight # Zero
    /\ \A i \in DOMAIN logs : logs[i].weight = logs[1].weight

\* C17: for a constant series of n >= 2 equal values the trend computation
\* returns "stable" with slope exactly 0.
C17_ConstantSeriesIsStable ==
    ( /\ retval.stage \in {"calculateWeightTrend", "calculateTrends"}
      /\ IsConstant(args.weightLogs) )
    => /\ retval.trend = "stable"
       /\ retval.slope # NoNumber
       /\ retval.slope = Zero

\* The direction the thresholds give a slope: above 0.1 "increasing", below
\* -0.1 "decreasing", and from -0.1 to 0.1, bounds included, "stable".
ThresholdDirection(slope) ==
    CASE Greater(slope, Decimal(1, 10))          -> "increasing"
      [] Less(slope, Negated(Decimal(1, 10)))    -> "decreasing"
      [] OTHER                                   -> "stable"

\* C18: every trend direction reported for a series with at least 2 values
\* is the one the thresholds give the least-squares slope of the values:
\* for the trend of the analytics, of the progress statistics and of the
\* progress analysis.
C18_DirectionFollowsSlopeThresholds ==
    ( /\ retval.stage \in {"calculateWeightTrend", "calculateTrends", "calculateProgressStats"}
      /\ Len(Valued(args.weightLogs)) >= 2 )
    => retval.trend = ThresholdDirection(regressionSlope(Valued(args.weightLogs)))

\* The calendar days that have at least one log.
LoggedDays(logs) == { DayOf(logs[i].timestamp, args.zone) : i \in DOMAIN logs }

\* The length of the longest run of consecutive days in a set of days.
LongestRun(days) ==
    LET runs == { <<a, b>> \in days \X days : a <= b /\ \A day \in a..b : day \in days }
    IN  IF days = {} THEN 0
        ELSE CHOOSE n \in 1..Cardinality(days) :
                /\ \E run \in runs : run[2] - run[1] + 1 = n
                /\ \A run \in runs : run[2] - run[1] + 1 <= n

\* C19: whatever the order of the logs and however many logs a day has, the
\* consistency is the length of the longest run of consecutive calendar days
\* that have at least one log; a day without a log starts the run again.
C19_ConsistencyIsLongestRunOfDays ==
    retval.stage = "calculateNutritionStats"
    => retval.consistency = LongestRun(LoggedDays(args.nutritionLogs))

\* C21: the trend computation never throws, whatever it is given: on the
\* progress data that a progress analysis passes to it, it returns a trend,
\* and the analysis does not end with the TypeError of a malformed value.
C21_TrendComputationNeverThrows ==
    \A r \in CallIds :
        LET c == calls[r]
        IN  c.template = "progress_analysis"
            => /\ ~calculateTrends(c.progress).threw
               /\ c.outcome.error # "TypeError"

\* C22: every advisory call that was invoked completes, also when the
\* endpoint never answers: no call stays suspended for ever.
C22_EveryCallCompletes ==
    \A r \in 1..MaxCalls : (calls[r].pc \in {"gather", "fetch", "json", "insert"}) ~> (calls[r].pc = "done")

\* C23: computing the statistics has no side effect on their input: when
\* calculateNutritionStats returns, the logs the caller passed are the same
\* entries in the same order as before the call.
C23_StatsLeaveInputAlone ==
    [][(retval.stage = "start" /\ retval'.stage = "calculateNutritionStats")
          => args'.nutritionLogs = args.nutritionLogs]_vars

\* The days a supplied range bounds the history to; 0 for no bound.
BoundOf(timeRange) ==
    CASE timeRange = "7_days"  -> 7
      [] timeRange = "30_days" -> 30
      [] timeRange = "90_days" -> 90
      [] OTHER                 -> 0

\* The stored logs of the user that a supplied range asks for.
LogsInRange(timeRange) ==
    { db["progress"][i] : i \in { j \in DOMAIN db["progress"] :
          /\ db["progress"][j].userId = args.userId
          /\ \/ BoundOf(timeRange) = 0
             \/ db["progress"][j].timestamp >= Now - BoundOf(timeRange) } }

\* C24: the history gathered for a progress analysis is exactly the user's
\* logs dated at or after now minus N days when the caller supplies 7_days,
\* 30_days or 90_days, and all of the user's logs when the caller supplies
\* no range or any other value.
C24_HistoryIsLogsInRange ==
    retval.stage = "gathered"
    => { retval.history[i] : i \in DOMAIN retval.history } = LogsInRange(retval.timeRange)

\* The endpoint answered with a 2xx status and a body whose first candidate
\* has a text.
WellFormed(reply) ==
    /\ reply.fetch = "resolve" /\ reply.ok /\ reply.json = "valid"
    /\ reply.candidates = "list" /\ reply.text # Undefined

\* C25: when the endpoint answers with a 2xx status and a well-formed body,
\* callAIAPI resolves with exactly the text of the first candidate's first
\* part, unchanged, and the fallback selection does not run.
C25_SuccessTextIsVerbatim ==
    \A r \in CallIds :
        LET c == calls[r]
        IN  (GatewayResolved(c) /\ WellFormed(c.reply))
            => /\ c.response = c.reply.text
               /\ Count("fallback", c.trace) = 0

C25_Witness ==
    \E r \in CallIds :
        /\ calls[r].pc = "done" /\ calls[r].reply.name = "padded_text"
        /\ calls[r].type = "workout"
        /\ calls[r].outcome.kind = "return"
        /\ calls[r].outcome.text = "  Plan de la IA  "

\* C26: a request on a workout by a user who is not its owner ends with
\* an authorization error and leaves the store as it was; a workout is
\* returned, changed or deleted only by a request of its owner.
C26_OnlyOwnerTouchesWorkout ==
    [][ Len(retval'.log) = Len(retval.log) + 1
        => LET q == retval'.log[Len(retval'.log)]
               stored == db["workouts"]
           IN  /\ \A w \in DOMAIN stored :
                     (w \notin DOMAIN db'["workouts"] \/ db'["workouts"][w] # stored[w])
                        => q.user = stored[w].userId
               /\ (q.id \in DOMAIN stored /\ q.outcome = "return")
                     => q.user = stored[q.id].userId
               /\ (q.id \in DOMAIN stored /\ q.user # Null /\ q.user # stored[q.id].userId)
                     => (q.outcome = "AuthorizationError" /\ db' = db) ]_vars

C26_Witness ==
    /\ retval.stage = "serving"
    /\ \E i \in DOMAIN retval.log :
          /\ retval.log[i].op = "deleteWorkout"
          /\ retval.log[i].user = "u2"
          /\ retval.log[i].id = "w1"
          /\ retval.log[i].outcome = "AuthorizationError"
    /\ "w1" \in DOMAIN db["workouts"]

\* C27: after any register and updateUser requests no two stored users have
\* the same email, and a register request for an email that a stored user
\* has ends with a conflict error.
C27_EmailsStayUnique ==
    /\ \A u, v \in DOMAIN db["users"] :
          db["users"][u].email = db["users"][v].email => u = v
    /\ \A i \in DOMAIN retval.log :
          ( /\ retval.log[i].op = "register"
            /\ isValidEmail(retval.log[i].email)
            /\ retval.log[i].taken )
             => retval.log[i].outcome = "ConflictError"

\* The Authorization header carries a Bearer token that verifies and whose
\* userId is the id of a stored user.
Authenticated(request) ==
    /\ request.header # Undefined
    /\ startsWithBearer(request.header)
    /\ jwtVerify(substring7(request.header)).throws = "-"
    /\ jwtVerify(substring7(request.header)).userId \in DOMAIN db["users"]

\* C28: for a request to a path that is not public, authenticate calls next
\* only for an authenticated request, answers 401 or 500 otherwise, and never
\* both answers and calls next.  The path of the request is the path it was
\* sent to, req.originalUrl.
C28_NextOnlyWhenAuthenticated ==
    /\ ~(retval.next /\ retval.status # 0)
    /\ (retval.stage = "done" /\ args.originalUrl \notin publicRoutes) =>
          /\ retval.next => Authenticated(args)
          /\ ~retval.next => retval.status \in {401, 500}

\* A route registered for the method matches the path of the request.
RouteMatches(router, method, path) ==
    \E i \in DOMAIN router[method] :
        router[method][i] = path \/ matchRoute(path, router[method][i])

\* The handler is among what was run.
HandlerRan(last) == \E i \in DOMAIN last.ran : last.ran[i] \notin Middlewares

\* C29: Router.handle runs the handler only after every global middleware
\* ran, in the order of registration, and none threw; nothing runs after a
\* middleware that threw; and with no matching route the call fails with the
\* route-not-found error before anything is run.
C29_HandlerAfterEveryMiddleware ==
    retval.stage = "handled" =>
        LET last == retval.last
            middleware == retval.router.middleware
            path == IF last.e.path = Undefined THEN "/" ELSE last.e.path
        IN  /\ HandlerRan(last) =>
                  /\ Len(last.ran) = Len(middleware) + 1
                  /\ SubSeq(last.ran, 1, Len(middleware)) = middleware
                  /\ \A i \in DOMAIN middleware : last.outcomes[i] = NoError
            /\ ~HandlerRan(last) => last.ran = SubSeq(middleware, 1, Len(last.ran))
            /\ \A i \in DOMAIN last.ran :
                  (i \in DOMAIN middleware /\ last.outcomes[i] # NoError)
                      => Len(last.ran) = i
            /\ (last.method \in RouterMethods
                  /\ ~RouteMatches(retval.router, last.method, path))
                  => /\ last.ran = << >>
                     /\ includes(last.thrown.message, "Ruta no encontrada")

C29_Witness ==
    /\ retval.stage = "handled"
    /\ Len(retval.router.middleware) = 2
    /\ Len(retval.last.ran) = 3
    /\ retval.last.ran[3] = "/users/:id"

\* The status code the specification gives to an error of each class.
StatusOfClass(name) ==
    CASE name = "ValidationError" -> 400
      [] name = "AuthenticationError" -> 401
      [] name = "AuthorizationError" -> 403
      [] name = "NotFoundError" -> 404
      [] name = "ConflictError" -> 409
      [] OTHER -> 500

\* The first error raised while the request was handled, NoError if none:
\* of a middleware, else of the route handler.
Raised(request) ==
    IF \E i \in 1..2 : request.outcomes[i] # NoError
    THEN request.outcomes[CHOOSE i \in 1..2 :
            /\ request.outcomes[i] # NoError
            /\ \A j \in 1..(i - 1) : request.outcomes[j] = NoError]
    ELSE request.handlerOutcome

\* The errors of the classes that ErrorHandler makes, an error of another
\* class, and the error of Router.handle for a method it has no routes for.
EntryThrown ==
    {Err("ValidationError", <<"El campo es requerido">>),
     Err("AuthenticationError", <<"No autorizado">>),
     Err("AuthorizationError", <<"Acceso denegado">>),
     Err("NotFoundError", <<"Recurso no encontrado">>),
     Err("ConflictError", <<"El email ya está registrado">>),
     Err("TypeError", <<"Cannot read properties of undefined">>)}
UnsupportedMethod == Err("Error", <<"Método HTTP no soportado", ": ", "PATCH">>)

\* C30: an error raised while doGet or doPost handles a request is answered
\* with the status code of its class, by whichever of the global middleware
\* and the route handler it was raised; an unknown route is answered 404, an
\* unsupported method 405, and ErrorHandler.handle, which answers, gives
\* every class its code.
C30_ErrorsGetTheirStatus ==
    /\ \A error \in EntryThrown : ErrorHandler_handle(error) = StatusOfClass(error.name)
    /\ ErrorHandler_handle(UnsupportedMethod) = 405
    /\ retval.stage = "answered" =>
          LET path == IF retval.e.path = Undefined THEN "/" ELSE retval.e.path
          IN  IF ~RouteMatches(setupRoutes, retval.method, path)
              THEN ~retval.answer.success /\ retval.answer.code = 404
              ELSE IF InvalidJSON(retval.e.postData)
              THEN ~retval.answer.success /\ retval.answer.code = 500
              ELSE Raised(retval) # NoError =>
                      /\ ~retval.answer.success
                      /\ retval.answer.code = StatusOfClass(Raised(retval).name)

\* The health check is asked for: the request validation raises a TypeError,
\* which is answered 500.
C30_Witness ==
    /\ retval.stage = "answered"
    /\ retval.method = "GET"
    /\ retval.e.path = "/health"
    /\ Raised(retval).name = "TypeError"
    /\ retval.answer.code = 500
    /\ retval.answer.ran = <<"authenticate", "validateRequest">>

====
